---- MODULE Spec2Model ----
(***************************************************************************)
(* Model of the SEO run of services/importer.py: the run lock, the         *)
(* round-robin catalog selector with its persisted cursor, the SEO         *)
(* composer make_seo, the idempotence gate needs_update, the write adapter *)
(* update_product_seo and the orchestrator run_all.                        *)
(*                                                                         *)
(* Strings are sequences of one-character strings, so that strip, lower,   *)
(* replace, split and truncation are computed and not assumed.  The three  *)
(* non-ASCII characters of the source are written "u2026" (ellipsis),      *)
(* "u2019" (right quote) and "u2013" (en dash); each is one character.     *)
(***************************************************************************)
EXTENDS Integers, Sequences, FiniteSets, TLC

VARIABLES
    OVERWRITE_ALWAYS,       \* services/importer.py:55
    SEO_UPDATE_HANDLE,      \* services/importer.py:53
    UPDATE_ALL_IMAGES_ALT,  \* services/importer.py:54
    AUTO_IMPORT,            \* services/importer.py:41
    store,                  \* the external catalog: sequence of products, ascending id
    cursorFile,             \* SEO_CURSOR_PATH
    lockFile,               \* LOCK_PATH: [exists, mtime]
    now,                    \* time.time(), in minutes
    run,                    \* per execution of run_all: position and locals
    lastOp,                 \* what the last operation did (requests, result)
    hist,                   \* batches returned by the round-robin calls so far
    _kw_cache               \* main.py:736, the keyword-map slot of the process

vars == <<OVERWRITE_ALWAYS, SEO_UPDATE_HANDLE, UPDATE_ALL_IMAGES_ALT, AUTO_IMPORT,
          store, cursorFile, lockFile, now, run, lastOp, hist, _kw_cache>>

flags == <<OVERWRITE_ALWAYS, SEO_UPDATE_HANDLE, UPDATE_ALL_IMAGES_ALT, AUTO_IMPORT>>

(***************************************************************************)
(* String helpers (Python str methods used by the source)                  *)
(***************************************************************************)
Min(a, b) == IF a <= b THEN a ELSE b
Max(a, b) == IF a >= b THEN a ELSE b

\* s[:n]
Take(s, n) == SubSeq(s, 1, Min(n, Len(s)))

\* s[n:]
Drop(s, n) == SubSeq(s, Min(n, Len(s)) + 1, Len(s))

RECURSIVE LStrip(_)
LStrip(s) == IF s # <<>> /\ Head(s) = " " THEN LStrip(Tail(s)) ELSE s

RECURSIVE RStrip(_)
RStrip(s) == IF s # <<>> /\ s[Len(s)] = " " THEN RStrip(Take(s, Len(s) - 1)) ELSE s

\* str.strip()
Strip(s) == RStrip(LStrip(s))

LowerChar(c) ==
    CASE c = "A" -> "a" [] c = "B" -> "b" [] c = "H" -> "h" [] c = "X" -> "x"
      [] OTHER -> c

\* str.lower()
Lower(s) == [i \in 1..Len(s) |-> LowerChar(s[i])]

\* str.replace(" ", "-")
ReplaceSpaceDash(s) == [i \in 1..Len(s) |-> IF s[i] = " " THEN "-" ELSE s[i]]

\* str.split(",")[0]
RECURSIVE SplitFirst(_)
SplitFirst(s) ==
    IF s = <<>> \/ Head(s) = "," THEN <<>> ELSE <<Head(s)>> \o SplitFirst(Tail(s))

TitleSuffix ==
    <<" ", "|", " ", "J", "e", "f", "f", "u2019", "s", " ", "F", "a", "v",
      "o", "r", "i", "t", "e", " ", "P", "i", "c", "k", "s">>
DescPrefix ==
    <<"S", "h", "o", "p", " ">>
DescSep ==
    <<".", " ">>
DescSuffix ==
    <<" ", "f", "o", "r", " ", "U", "S", "/", "E", "U", "/", "C", "A",
      ".", " ", "F", "a", "s", "t", " ", "s", "h", "i", "p", "p", "i", "n",
      "g", ".", " ", "G", "r", "a", "b", " ", "y", "o", "u", "r", "s", ".">>
AltSep ==
    <<" ", "u2013", " ">>
Ellipsis ==
    <<"u2026">>

TitleMax == 60
DescMax == 160

(***************************************************************************)
(* SEO helpers                                                             *)
(***************************************************************************)
_truncate(s, n) == IF Len(s) <= n THEN s ELSE Take(s, Max(0, n - 1)) \o Ellipsis

make_seo(product) ==
    LET title   == Strip(product.title)
        handle  == ReplaceSpaceDash(Lower(Strip(product.handle)))
        first   == SplitFirst(product.tags)
        main_kw == Strip(IF first # <<>> THEN first ELSE title)
    IN  [ handle |-> handle,
          metafields_global_title_tag |-> _truncate(title \o TitleSuffix, TitleMax),
          metafields_global_description_tag |->
              _truncate(DescPrefix \o title \o DescSep \o main_kw \o DescSuffix, DescMax),
          alt_text |-> title \o AltSep \o main_kw ]

\* the ALT comparison looking at the first image only, whatever the scope
AltDiffers_first_only(imgs, new_alt) == Strip(imgs[1].alt) # new_alt

\* the image-ALT part of needs_update
AltDiffers(imgs, new_alt) ==
    IF UPDATE_ALL_IMAGES_ALT
    THEN \E i \in 1..Len(imgs) : Strip(imgs[i].alt) # new_alt
    ELSE Strip(imgs[1].alt) # new_alt

\* needs_update with the description compared before the title
needs_update_desc_first(product, seo) ==
    LET cur_title == Strip(product.metafields_global_title_tag)
        cur_desc  == Strip(product.metafields_global_description_tag)
        new_title == Strip(seo.metafields_global_title_tag)
        new_desc  == Strip(seo.metafields_global_description_tag)
        imgs      == product.images
        new_alt   == Strip(seo.alt_text)
    IN  IF cur_desc # new_desc THEN <<TRUE, "desc_diff">>
        ELSE IF cur_title # new_title THEN <<TRUE, "title_diff">>
        ELSE IF SEO_UPDATE_HANDLE /\ Strip(product.handle) # Strip(seo.handle)
             THEN <<TRUE, "handle_diff">>
        ELSE IF imgs = <<>> THEN <<FALSE, "nochange">>
        ELSE IF AltDiffers(imgs, new_alt)
             THEN <<TRUE, IF UPDATE_ALL_IMAGES_ALT THEN "alt_diff_all" ELSE "alt_diff_first">>
        ELSE <<FALSE, "nochange">>

needs_update(product, seo) ==
    LET cur_title == Strip(product.metafields_global_title_tag)
        cur_desc  == Strip(product.metafields_global_description_tag)
        new_title == Strip(seo.metafields_global_title_tag)
        new_desc  == Strip(seo.metafields_global_description_tag)
        imgs      == product.images
        new_alt   == Strip(seo.alt_text)
    IN  IF cur_title # new_title THEN <<TRUE, "title_diff">>
        ELSE IF cur_desc # new_desc THEN <<TRUE, "desc_diff">>
        ELSE IF SEO_UPDATE_HANDLE /\ Strip(product.handle) # Strip(seo.handle)
             THEN <<TRUE, "handle_diff">>
        ELSE IF imgs = <<>> THEN <<FALSE, "nochange">>
        ELSE IF AltDiffers(imgs, new_alt)
             THEN <<TRUE, IF UPDATE_ALL_IMAGES_ALT THEN "alt_diff_all" ELSE "alt_diff_first">>
        ELSE <<FALSE, "nochange">>

(***************************************************************************)
(* Write adapter                                                           *)
(***************************************************************************)
\* outcome of one _put/_post/_get call, after the retries of _retry:
\*   "ok"    a 200/201 response
\*   "fail"  any other response (4xx, or 429/5xx on the last try)
\*   "raise" RuntimeError: every try ended in a RequestException
Outcomes == {"ok", "fail", "raise"}

MetaReq(pid, seo, out) ==
    [ kind |-> "meta", pid |-> pid, img |-> 0,
      sets_handle |-> SEO_UPDATE_HANDLE,
      handle |-> IF SEO_UPDATE_HANDLE THEN seo.handle ELSE <<>>,
      title |-> seo.metafields_global_title_tag,
      desc |-> seo.metafields_global_description_tag,
      alt |-> <<>>, out |-> out ]

AltReq(pid, img_id, seo, out) ==
    [ kind |-> "alt", pid |-> pid, img |-> img_id,
      sets_handle |-> FALSE, handle |-> <<>>, title |-> <<>>, desc |-> <<>>,
      alt |-> seo.alt_text, out |-> out ]

\* the ALT PUT sent for the first image only, whatever the scope
AltTargets_first_only(images) ==
    IF images = <<>> THEN <<>> ELSE IF images[1].id # 0 THEN <<1>> ELSE <<>>

\* positions of the images update_product_seo sends an ALT PUT for
AltTargets(images) ==
    IF images = <<>> THEN <<>>
    ELSE IF UPDATE_ALL_IMAGES_ALT
         THEN SelectSeq([i \in 1..Len(images) |-> i], LAMBDA i : images[i].id # 0)
         ELSE IF images[1].id # 0 THEN <<1>> ELSE <<>>

TargetSet(images) == {AltTargets(images)[k] : k \in 1..Len(AltTargets(images))}

\* the ALT PUTs in order; a raising PUT ends the function
RECURSIVE AltPuts(_, _, _, _, _)
AltPuts(pid, images, seo, targets, outAlt) ==
    IF targets = <<>> THEN <<>>
    ELSE LET i   == Head(targets)
             req == AltReq(pid, images[i].id, seo, outAlt[i])
         IN  IF outAlt[i] = "raise" THEN <<req>>
             ELSE <<req>> \o AltPuts(pid, images, seo, Tail(targets), outAlt)

\* update_product_seo without the short-circuit: it writes also when
\* needs_update reports no change
update_product_seo_always_writes(p, seo, outMeta, outAlt) ==
    LET nu    == needs_update(p, seo)
        gate  == IF OVERWRITE_ALWAYS THEN 0 ELSE 1
        why   == IF OVERWRITE_ALWAYS THEN "force" ELSE nu[2]
        meta  == MetaReq(p.id, seo, outMeta)
        alts  == AltPuts(p.id, p.images, seo, AltTargets(p.images), outAlt)
        bad   == \E k \in 1..Len(alts) : alts[k].out # "ok"
    IN  [did |-> outMeta = "ok" /\ ~bad, reason |-> IF outMeta = "ok" /\ ~bad THEN why ELSE "api_fail",
         raised |-> FALSE, gate |-> gate, reqs |-> <<meta>> \o alts]

\* update_product_seo consulting needs_update whatever OVERWRITE_ALWAYS says
update_product_seo_always_gated(p, seo, outMeta, outAlt) ==
    LET nu    == needs_update(p, seo)
        meta  == MetaReq(p.id, seo, outMeta)
        alts  == AltPuts(p.id, p.images, seo, AltTargets(p.images), outAlt)
        bad   == \E k \in 1..Len(alts) : alts[k].out # "ok"
    IN  IF ~nu[1]
        THEN [did |-> FALSE, reason |-> "nochange", raised |-> FALSE, gate |-> 1, reqs |-> <<>>]
        ELSE [did |-> outMeta = "ok" /\ ~bad,
              reason |-> IF outMeta = "ok" /\ ~bad THEN nu[2] ELSE "api_fail",
              raised |-> FALSE, gate |-> 1, reqs |-> <<meta>> \o alts]

\* update_product_seo judging success by the metadata PUT alone
update_product_seo_meta_decides(p, seo, outMeta, outAlt) ==
    LET nu    == needs_update(p, seo)
        gate  == IF OVERWRITE_ALWAYS THEN 0 ELSE 1
        why   == IF OVERWRITE_ALWAYS THEN "force" ELSE nu[2]
        meta  == MetaReq(p.id, seo, outMeta)
        alts  == AltPuts(p.id, p.images, seo, AltTargets(p.images), outAlt)
    IN  IF ~OVERWRITE_ALWAYS /\ ~nu[1]
        THEN [did |-> FALSE, reason |-> "nochange", raised |-> FALSE, gate |-> gate, reqs |-> <<>>]
        ELSE IF outMeta = "raise" \/ \E k \in 1..Len(alts) : alts[k].out = "raise"
        THEN [did |-> FALSE, reason |-> "exception", raised |-> TRUE, gate |-> gate,
              reqs |-> IF outMeta = "raise" THEN <<meta>> ELSE <<meta>> \o alts]
        ELSE [did |-> outMeta = "ok", reason |-> IF outMeta = "ok" THEN why ELSE "api_fail",
              raised |-> FALSE, gate |-> gate, reqs |-> <<meta>> \o alts]

\* update_product_seo(p, seo) when the metadata PUT ends as outMeta and the
\* ALT PUT of image i as outAlt[i].  gate counts the calls of needs_update.
update_product_seo(p, seo, outMeta, outAlt) ==
    LET nu    == needs_update(p, seo)
        gate  == IF OVERWRITE_ALWAYS THEN 0 ELSE 1
        why   == IF OVERWRITE_ALWAYS THEN "force" ELSE nu[2]
        meta  == MetaReq(p.id, seo, outMeta)
        alts  == AltPuts(p.id, p.images, seo, AltTargets(p.images), outAlt)
        ok1   == outMeta = "ok"
        ok2   == \A k \in 1..Len(alts) : alts[k].out = "ok"
        altRaised == \E k \in 1..Len(alts) : alts[k].out = "raise"
    IN  IF ~OVERWRITE_ALWAYS /\ ~nu[1]
        THEN [did |-> FALSE, reason |-> "nochange", raised |-> FALSE, gate |-> gate, reqs |-> <<>>]
        ELSE IF outMeta = "raise"
        THEN [did |-> FALSE, reason |-> "exception", raised |-> TRUE, gate |-> gate, reqs |-> <<meta>>]
        ELSE IF altRaised
        THEN [did |-> FALSE, reason |-> "exception", raised |-> TRUE, gate |-> gate,
              reqs |-> <<meta>> \o alts]
        ELSE IF ok1 /\ ok2
        THEN [did |-> TRUE, reason |-> why, raised |-> FALSE, gate |-> gate, reqs |-> <<meta>> \o alts]
        ELSE [did |-> FALSE, reason |-> "api_fail", raised |-> FALSE, gate |-> gate,
              reqs |-> <<meta>> \o alts]

\* the outcomes chosen are those of the requests sent: an outcome is drawn
\* only for a PUT that the call reached
Attempted(reqs, outMeta, outAlt) ==
    /\ (reqs = <<>> => outMeta = "ok")
    /\ \A i \in DOMAIN outAlt :
          (\A k \in 1..Len(reqs) : ~(reqs[k].kind = "alt" /\ reqs[k].img = i)) => outAlt[i] = "ok"

(***************************************************************************)
(* The external store                                                      *)
(***************************************************************************)
\* PUT /products/{pid}.json and PUT /products/{pid}/images/{img}.json
ApplyReq(st, req) ==
    IF req.out # "ok" \/ req.pid \notin 1..Len(st) THEN st
    ELSE IF req.kind = "meta"
    THEN [st EXCEPT ![req.pid] =
            [@ EXCEPT !.metafields_global_title_tag = req.title,
                      !.metafields_global_description_tag = req.desc,
                      !.handle = IF req.sets_handle THEN req.handle ELSE @]]
    ELSE [st EXCEPT ![req.pid].images =
            [i \in 1..Len(@) |-> IF @[i].id = req.img THEN [@[i] EXCEPT !.alt = req.alt] ELSE @[i]]]

RECURSIVE ApplyReqs(_, _)
ApplyReqs(st, reqs) ==
    IF reqs = <<>> THEN st ELSE ApplyReqs(ApplyReq(st, Head(reqs)), Tail(reqs))

(***************************************************************************)
(* Cursor file and round-robin selection                                   *)
(***************************************************************************)
PageMax == 250
None == 0

CursorAbsent  == [kind |-> "absent",  since_id |-> 0]
CursorCorrupt == [kind |-> "corrupt", since_id |-> 0]
CursorJson(v) == [kind |-> "json",    since_id |-> v]

\* _load_cursor of a process that does not find what the last one saved
_load_cursor_forgets(file) == None

\* _load_cursor without the test "v if v > 0 else None"
_load_cursor_unchecked(file) ==
    IF file.kind = "json" THEN file.since_id ELSE None

\* None is modelled as 0: the source tests the cursor by truth value only.
\* An absent file skips the read; a file that is not JSON, is not an object
\* or holds a since_id that int() rejects raises inside the try block and
\* ends at "return None" like the absent one.
_load_cursor(file) ==
    IF file.kind = "json" /\ file.since_id > 0 THEN file.since_id ELSE None

\* _save_cursor losing the id it is given
_save_cursor_zero(since_id) == CursorJson(0)

_save_cursor(since_id) == CursorJson(since_id)

\* GET /products.json?limit=n[&since_id=s]: ascending ids greater than s
FetchPage(cat, since_id, n) ==
    Take(SelectSeq(cat, LAMBDA p : p.id > since_id), n)

\* the loop without the wrap-around: it ends at the first empty page
RECURSIVE RRLoop_no_wrap(_, _, _, _, _, _, _, _)
RRLoop_no_wrap(cat, limit, batch, since_id, wrapped, k, failAt, failKind) ==
    IF Len(batch) >= limit
    THEN [batch |-> batch, since_id |-> since_id, raised |-> FALSE, fetches |-> k - 1,
          wrapped |-> wrapped, failed |-> FALSE, resets |-> 0]
    ELSE IF k = failAt
    THEN [batch |-> batch, since_id |-> since_id, raised |-> failKind = "raise",
          fetches |-> k, wrapped |-> wrapped, failed |-> TRUE, resets |-> 0]
    ELSE LET items == FetchPage(cat, since_id, Min(PageMax, limit - Len(batch)))
         IN  IF items = <<>>
             THEN [batch |-> batch, since_id |-> since_id, raised |-> FALSE,
                   fetches |-> k, wrapped |-> wrapped, failed |-> FALSE, resets |-> 0]
             ELSE RRLoop_no_wrap(cat, limit, batch \o items, items[Len(items)].id, wrapped,
                                 k + 1, failAt, failKind)

\* the loop when the wrapped flag is not consulted before the second reset
RECURSIVE RRLoop_n(_, _, _, _, _, _, _, _)
RRLoop_n(cat, limit, batch, since_id, wraps, k, failAt, failKind) ==
    IF Len(batch) >= limit
    THEN [batch |-> batch, since_id |-> since_id, raised |-> FALSE, fetches |-> k - 1,
          wrapped |-> wraps > 0, failed |-> FALSE, resets |-> wraps]
    ELSE IF k = failAt
    THEN [batch |-> batch, since_id |-> since_id, raised |-> failKind = "raise",
          fetches |-> k, wrapped |-> wraps > 0, failed |-> TRUE, resets |-> wraps]
    ELSE LET items == FetchPage(cat, since_id, Min(PageMax, limit - Len(batch)))
         IN  IF items = <<>>
             THEN IF wraps >= 2
                  THEN [batch |-> batch, since_id |-> since_id, raised |-> FALSE,
                        fetches |-> k, wrapped |-> TRUE, failed |-> FALSE, resets |-> wraps]
                  ELSE RRLoop_n(cat, limit, batch, None, wraps + 1, k + 1, failAt, failKind)
             ELSE RRLoop_n(cat, limit, batch \o items, items[Len(items)].id, wraps,
                           k + 1, failAt, failKind)

RRLoop_wraps_twice(cat, limit, batch, since_id, wrapped, k, failAt, failKind) ==
    RRLoop_n(cat, limit, batch, since_id, IF wrapped THEN 1 ELSE 0, k, failAt, failKind)

\* The while loop of list_products_round_robin.  k numbers the page fetches
\* of the call; fetch number failAt (0: none) ends as failKind.  resets
\* counts the executions of "since_id = None" in the loop.
RECURSIVE RRLoop(_, _, _, _, _, _, _, _)
RRLoop(cat, limit, batch, since_id, wrapped, k, failAt, failKind) ==
    IF Len(batch) >= limit
    THEN [batch |-> batch, since_id |-> since_id, raised |-> FALSE, fetches |-> k - 1,
          wrapped |-> wrapped, failed |-> FALSE, resets |-> 0]
    ELSE IF k = failAt /\ failKind = "raise"
    THEN [batch |-> batch, since_id |-> since_id, raised |-> TRUE, fetches |-> k,
          wrapped |-> wrapped, failed |-> TRUE, resets |-> 0]
    ELSE IF k = failAt
    THEN [batch |-> batch, since_id |-> since_id, raised |-> FALSE, fetches |-> k,
          wrapped |-> wrapped, failed |-> TRUE, resets |-> 0]
    ELSE LET items == FetchPage(cat, since_id, Min(PageMax, limit - Len(batch)))
         IN  IF items = <<>>
             THEN IF wrapped
                  THEN [batch |-> batch, since_id |-> since_id, raised |-> FALSE,
                        fetches |-> k, wrapped |-> wrapped, failed |-> FALSE, resets |-> 0]
                  ELSE LET rest == RRLoop(cat, limit, batch, None, TRUE, k + 1,
                                          failAt, failKind)
                       IN  [rest EXCEPT !.resets = @ + 1]
             ELSE RRLoop(cat, limit, batch \o items, items[Len(items)].id, wrapped,
                         k + 1, failAt, failKind)

\* list_all_products: one page of up to 250 products per request; a failing
\* request ends the listing with what was accumulated (a raising one raises)
RECURSIVE list_all_pages(_, _, _, _, _)
list_all_pages(cat, products, k, failAt, failKind) ==
    IF k = failAt
    THEN [batch |-> products, raised |-> failKind = "raise", fetches |-> k, failed |-> TRUE]
    ELSE LET page == SubSeq(cat, Len(products) + 1, Min(Len(cat), Len(products) + PageMax))
             acc  == products \o page
         IN  IF Len(acc) < Len(cat)
             THEN list_all_pages(cat, acc, k + 1, failAt, failKind)
             ELSE [batch |-> acc, raised |-> FALSE, fetches |-> k, failed |-> FALSE]

list_all_products(cat, failAt, failKind) == list_all_pages(cat, <<>>, 1, failAt, failKind)

\* list_products_round_robin writing the cursor only when it fetched a product
list_products_round_robin_save_if_fetched(cat, file, limit, failAt, failKind) ==
    IF limit <= 0
    THEN LET a == list_all_products(cat, failAt, failKind)
         IN  [batch |-> a.batch, file |-> file, raised |-> a.raised, fetches |-> a.fetches,
              wrapped |-> FALSE, failed |-> a.failed, loaded |-> None, saved |-> FALSE,
              fetched |-> Len(a.batch), resets |-> 0]
    ELSE LET since_id == _load_cursor(file)
             l == RRLoop(cat, limit, <<>>, since_id, FALSE, 1, failAt, failKind)
             save == ~l.raised /\ l.batch # <<>>
         IN  [batch |-> IF l.raised THEN <<>> ELSE Take(l.batch, limit),
              file |-> IF save THEN _save_cursor(l.since_id) ELSE file,
              raised |-> l.raised, fetches |-> l.fetches, wrapped |-> l.wrapped,
              failed |-> l.failed, loaded |-> since_id, saved |-> save,
              fetched |-> Len(l.batch), resets |-> l.resets]

\* list_products_round_robin saving the last id on the limit <= 0 path too
list_products_round_robin_all_saves(cat, file, limit, failAt, failKind) ==
    IF limit <= 0
    THEN LET a == list_all_products(cat, failAt, failKind)
         IN  [batch |-> a.batch,
              file |-> IF a.raised THEN file
                       ELSE _save_cursor(IF a.batch = <<>> THEN None
                                         ELSE a.batch[Len(a.batch)].id),
              raised |-> a.raised, fetches |-> a.fetches,
              wrapped |-> FALSE, failed |-> a.failed, loaded |-> None, saved |-> ~a.raised,
              fetched |-> Len(a.batch), resets |-> 0]
    ELSE LET since_id == _load_cursor(file)
             l == RRLoop(cat, limit, <<>>, since_id, FALSE, 1, failAt, failKind)
         IN  [batch |-> IF l.raised THEN <<>> ELSE Take(l.batch, limit),
              file |-> IF l.raised THEN file ELSE _save_cursor(l.since_id),
              raised |-> l.raised, fetches |-> l.fetches, wrapped |-> l.wrapped,
              failed |-> l.failed, loaded |-> since_id, saved |-> ~l.raised,
              fetched |-> Len(l.batch), resets |-> l.resets]

\* list_products_round_robin(limit) against catalog cat and cursor file
\* file: the returned batch, the cursor file afterwards, and what happened
list_products_round_robin(cat, file, limit, failAt, failKind) ==
    IF limit <= 0
    THEN LET a == list_all_products(cat, failAt, failKind)
         IN  [batch |-> a.batch, file |-> file, raised |-> a.raised, fetches |-> a.fetches,
              wrapped |-> FALSE, failed |-> a.failed, loaded |-> None, saved |-> FALSE,
              fetched |-> Len(a.batch), resets |-> 0]
    ELSE LET since_id == _load_cursor(file)
             l == RRLoop(cat, limit, <<>>, since_id, FALSE, 1, failAt, failKind)
         IN  [batch |-> IF l.raised THEN <<>> ELSE Take(l.batch, limit),
              file |-> IF l.raised THEN file ELSE _save_cursor(l.since_id),
              raised |-> l.raised, fetches |-> l.fetches, wrapped |-> l.wrapped,
              failed |-> l.failed, loaded |-> since_id, saved |-> ~l.raised,
              fetched |-> Len(l.batch), resets |-> l.resets]

(***************************************************************************)
(* Bounds and input pools                                                  *)
(***************************************************************************)
MaxCatalog == 3     \* products in the catalog of the selection runs
MaxLimit == 3       \* largest batch size tried
MaxCalls == 3       \* calls of list_products_round_robin in one behaviour
MaxFailAt == 2      \* a page fetch up to this number may fail

Runs == {1, 2}

Rep(c, n) == [i \in 1..n |-> c]

Product(id, status, title, tags, handle, mt, md, images) ==
    [ id |-> id, status |-> status, title |-> title, tags |-> tags, handle |-> handle,
      metafields_global_title_tag |-> mt, metafields_global_description_tag |-> md,
      images |-> images ]

NoProduct == Product(0, "none", <<>>, <<>>, <<>>, <<>>, <<>>, <<>>)

\* a product as first registered: no meta fields, one image without ALT
BlankProduct(id) ==
    Product(id, "active", <<"a">>, <<>>, <<"h">>, <<>>, <<>>, <<[id |-> 1, alt |-> <<>>]>>)

RunIdle ==
    [ pc |-> "idle", dry |-> FALSE, limit |-> 0, since_id |-> None, batch |-> <<>>,
      idx |-> 0, updated |-> 0, skipped |-> 0, skipped_nochange |-> 0, errors |-> 0,
      created |-> FALSE, blocked |-> FALSE ]

NoOp ==
    [ op |-> "none", r |-> 0, before |-> NoProduct, did |-> FALSE, reason |-> "none",
      raised |-> FALSE, gate |-> 0, reqs |-> <<>>, wrote |-> {}, count |-> "none" ]

NoLock == [exists |-> FALSE, mtime |-> 0]

\* the slot before the first build: built_at is None and the lists are empty
NoBuild == [built |-> FALSE, built_at |-> 0, unigrams |-> <<>>, scanned |-> 0]

Ids(batch) == [i \in 1..Len(batch) |-> batch[i].id]

(***************************************************************************)
(* Specification SpecRR: successive calls of list_products_round_robin on  *)
(* a static catalog, by one caller with a fixed batch size                 *)
(***************************************************************************)
InitRR ==
    /\ OVERWRITE_ALWAYS = FALSE /\ SEO_UPDATE_HANDLE = FALSE
    /\ UPDATE_ALL_IMAGES_ALT = FALSE /\ AUTO_IMPORT = FALSE
    /\ \E m \in 0..MaxCatalog : store = [i \in 1..m |-> BlankProduct(i)]
    /\ \E f \in {CursorAbsent, CursorCorrupt} \cup {CursorJson(v) : v \in -1..MaxCatalog} :
          /\ f.since_id <= Len(store)
          /\ cursorFile = f
    /\ \E b \in -1..MaxLimit : run = [r \in Runs |-> IF r = 1 THEN [RunIdle EXCEPT !.limit = b] ELSE RunIdle]
    /\ lockFile = NoLock /\ now = 0 /\ lastOp = NoOp /\ hist = <<>> /\ _kw_cache = NoBuild

RRCall ==
    /\ Len(hist) < MaxCalls
    /\ \E failAt \in 0..MaxFailAt, failKind \in {"fail", "raise"} :
          /\ failAt = 0 => failKind = "fail"
          /\ LET res == list_products_round_robin(store, cursorFile, run[1].limit, failAt, failKind)
             IN  /\ cursorFile' = res.file
                 /\ hist' = Append(hist, [ ids |-> Ids(res.batch), loaded |-> res.loaded,
                                           file_before |-> cursorFile, ok |-> ~res.failed,
                                           raised |-> res.raised, saved |-> res.saved,
                                           fetched |-> res.fetched, fetches |-> res.fetches,
                                           wrapped |-> res.wrapped, resets |-> res.resets ])
                 /\ lastOp' = [NoOp EXCEPT !.op = "list_rr", !.r = 1, !.raised = res.raised,
                                           !.wrote = IF res.saved THEN {"cursor"} ELSE {}]
    /\ UNCHANGED <<flags, _kw_cache, store, lockFile, now, run>>

NextRR == RRCall

SpecRR == InitRR /\ [][NextRR]_vars

(***************************************************************************)
(* Round-robin properties (SpecRR)                                         *)
(***************************************************************************)
BatchSize == run[1].limit
CatalogSize == Len(store)

CeilDiv(m, b) == (m + b - 1) \div b

NoDuplicates(seq) == \A i, j \in 1..Len(seq) : i # j => seq[i] # seq[j]

RECURSIVE ConcatIds(_, _)
ConcatIds(h, n) == IF n = 0 THEN <<>> ELSE ConcatIds(h, n - 1) \o h[n].ids

\* the first n calls of the behaviour all had every page fetch succeed
CleanPrefix(n) == n <= Len(hist) /\ \A i \in 1..n : hist[i].ok

\* the first call found no usable cursor: the sweep starts at the first product
FromStart == hist # <<>> /\ hist[1].loaded = None

\* a full cycle of ceil(M/B) calls from the start is on record
CycleDone ==
    /\ BatchSize > 0 /\ CatalogSize > 0 /\ FromStart
    /\ CleanPrefix(CeilDiv(CatalogSize, BatchSize))

\* n ids in catalog order starting after position c, wrapping to the start
CyclicIds(c, n, m) == [j \in 1..n |-> ((c + j - 1) % m) + 1]

\* C3 (as claimed): with a catalog smaller than the limit, one call returns
\* exactly the M products of the catalog, each once.
C3_WrapReturnsEachOnce ==
    \A i \in 1..Len(hist) :
        (BatchSize > 0 /\ CatalogSize < BatchSize /\ hist[i].ok)
            => (Len(hist[i].ids) = CatalogSize /\ NoDuplicates(hist[i].ids))

\* C4 (as claimed, on a catalog at least as large as the batch): the
\* ceil(M/B) calls of one cycle return every product exactly once: their
\* union is the whole catalog and no id appears twice within the cycle.
C4_CycleEachExactlyOnce ==
    (CycleDone /\ CatalogSize >= BatchSize) =>
        LET ids == ConcatIds(hist, CeilDiv(CatalogSize, BatchSize))
        IN  /\ {ids[k] : k \in 1..Len(ids)} = 1..CatalogSize
            /\ NoDuplicates(ids)

\* C4 (amended): the ceil(M/B) calls of one cycle together return the whole
\* catalog; no id appears twice within the cycle when B divides M.
C4_CycleCoversCatalog ==
    CycleDone =>
        LET ids == ConcatIds(hist, CeilDiv(CatalogSize, BatchSize))
        IN  /\ {ids[k] : k \in 1..Len(ids)} = 1..CatalogSize
            /\ (CatalogSize % BatchSize = 0 => NoDuplicates(ids))

\* a cycle in which B does not divide M has completed; its last call wrapped
C4_Witness ==
    /\ CycleDone
    /\ CatalogSize > BatchSize /\ CatalogSize % BatchSize # 0
    /\ hist[CeilDiv(CatalogSize, BatchSize)].wrapped

\* C5 (as claimed, on a catalog at least as large as the batch): from an
\* absent cursor the calls return B, B, ... and then only the M mod B
\* remaining products.
C5_LastCallReturnsRemainder ==
    (BatchSize > 0 /\ CatalogSize >= BatchSize /\ FromStart) =>
        \A i \in 1..Len(hist) :
            (CleanPrefix(i) /\ i <= CeilDiv(CatalogSize, BatchSize)) =>
                Len(hist[i].ids) =
                    IF i <= CatalogSize \div BatchSize THEN BatchSize
                    ELSE CatalogSize % BatchSize

\* C5 (amended): each call continues after the product the previous call
\* ended on and returns min(B, 2M - c) products in catalog order, c being the
\* position of the cursor, wrapping to the start of the catalog to fill the
\* batch: with M >= B every call returns B products.
C5_CallsFillBatchAcrossWrap ==
    (BatchSize > 0 /\ CatalogSize > 0 /\ FromStart) =>
        \A i \in 1..Len(hist) :
            CleanPrefix(i) =>
                /\ hist[i].ids = CyclicIds(hist[i].loaded,
                                           Min(BatchSize, 2 * CatalogSize - hist[i].loaded),
                                           CatalogSize)
                /\ i > 1 => hist[i].loaded = hist[i-1].ids[Len(hist[i-1].ids)]
                /\ CatalogSize >= BatchSize => Len(hist[i].ids) = BatchSize

\* the call that reaches the end of a catalog with M >= B, B not dividing M
C5_Witness ==
    /\ BatchSize > 0 /\ FromStart
    /\ CatalogSize >= BatchSize /\ CatalogSize % BatchSize # 0
    /\ CleanPrefix(Len(hist))
    /\ Len(hist) = CeilDiv(CatalogSize, BatchSize)
    /\ Len(hist[Len(hist)].ids) = BatchSize

(***************************************************************************)
(* Cursor handling of the selector (SpecRR)                                *)
(***************************************************************************)
\* the cursor file is missing, is not readable as a JSON object with an
\* integer since_id, or holds a since_id that is not positive
UnusableCursor(f) == f.kind \in {"absent", "corrupt"} \/ f.since_id <= 0

\* C21: a call with limit > 0 that finds a missing, malformed or non-positive
\* cursor file gets None from _load_cursor, and when its fetches succeed on a
\* catalog that is not empty the batch it returns starts at the first
\* product of the catalog.
C21_UnusableCursorStartsAtFirst ==
    \A i \in 1..Len(hist) :
        (BatchSize > 0 /\ UnusableCursor(hist[i].file_before)) =>
            /\ hist[i].loaded = None
            /\ (hist[i].ok /\ CatalogSize > 0) =>
                   /\ hist[i].ids # <<>>
                   /\ hist[i].ids[1] = store[1].id

\* a call found a file that is not JSON, another a negative since_id, and
\* both returned a batch starting at the first of several products
C21_Witness ==
    /\ BatchSize > 0 /\ CatalogSize >= 2
    /\ \E i \in 1..Len(hist) :
          /\ hist[i].file_before \in {CursorCorrupt, CursorJson(-1)}
          /\ hist[i].ok /\ hist[i].ids[1] = store[1].id

\* C22: with limit <= 0 a call of list_products_round_robin leaves the cursor
\* file as it found it, loads no cursor, and when its fetches succeed
\* returns the whole catalog in catalog order.
C22_NoLimitLeavesCursorAlone ==
    BatchSize <= 0 =>
        \A i \in 1..Len(hist) :
            /\ hist[i].file_before = cursorFile
            /\ ~hist[i].saved /\ hist[i].loaded = None /\ hist[i].resets = 0
            /\ hist[i].ok => hist[i].ids = Ids(store)

\* a call with limit <= 0 returned a catalog of several products while the
\* cursor file pointed into it
C22_Witness ==
    /\ BatchSize <= 0 /\ CatalogSize >= 2 /\ hist # <<>>
    /\ hist[Len(hist)].ok /\ hist[Len(hist)].ids = Ids(store)
    /\ cursorFile.kind = "json" /\ cursorFile.since_id = 1

\* C23: every call with limit > 0 ends, after at most limit fetches that
\* return products and two that return none, and it executes the reset
\* "since_id = None" at most once, whatever the size of the catalog.
C23_CallEndsWithOneResetAtMost ==
    \A i \in 1..Len(hist) :
        BatchSize > 0 =>
            /\ hist[i].resets <= 1
            /\ hist[i].fetches <= Min(hist[i].fetched, BatchSize) + 2

\* calls on an empty catalog and on a catalog smaller than the limit ended
\* after one reset
C23_Witness ==
    /\ BatchSize > 0 /\ CatalogSize < BatchSize /\ hist # <<>>
    /\ hist[Len(hist)].resets = 1 /\ hist[Len(hist)].ok
    /\ hist[Len(hist)].fetches = (IF CatalogSize = 0 THEN 2 ELSE 4)

\* the cursor file after the i-th call
CursorAfter(i) == IF i < Len(hist) THEN hist[i + 1].file_before ELSE cursorFile

\* the position a cursor file stands for: None counts as before the first
Position(f) == IF f.kind = "json" /\ f.since_id > 0 THEN f.since_id ELSE 0

\* the call that follows call i resumes right after the product call i saved
Resumes(i) ==
    (i < Len(hist) /\ hist[i + 1].ok /\ Position(CursorAfter(i)) < CatalogSize) =>
        /\ hist[i + 1].ids # <<>>
        /\ hist[i + 1].ids[1] = store[Position(CursorAfter(i)) + 1].id

TextPool ==
    { [title |-> <<"a">>,      tags |-> <<>>,                   handle |-> <<"h">>],
      [title |-> <<" ", "A">>, tags |-> <<" ", "k", ",", "x">>, handle |-> <<"H", " ", "x">>],
      [title |-> <<"a">>,      tags |-> <<"k">>,                handle |-> <<" ", "h">>] }

\* stored values: never set, as composed, as composed with stray whitespace
StoredPool(composed) == { <<>>, composed, composed \o <<" ">> }

\* the image lists tried: none, one image, two images
ImagePool(alt) ==
    { <<>> }
    \cup { <<[id |-> 1, alt |-> a]>> : a \in StoredPool(alt) }
    \cup { <<[id |-> 1, alt |-> alt], [id |-> 2, alt |-> b]>> : b \in {<<>>, alt} }

GatePool ==
    UNION { LET seo == make_seo(Product(1, "active", x.title, x.tags, x.handle, <<>>, <<>>, <<>>))
            IN  { Product(1, "active", x.title, x.tags, x.handle, mt, md, im) :
                    mt \in StoredPool(seo.metafields_global_title_tag),
                    md \in {<<>>, seo.metafields_global_description_tag},
                    im \in ImagePool(seo.alt_text) }
          : x \in TextPool }

InitGate ==
    /\ OVERWRITE_ALWAYS \in BOOLEAN /\ SEO_UPDATE_HANDLE \in BOOLEAN
    /\ UPDATE_ALL_IMAGES_ALT \in BOOLEAN /\ AUTO_IMPORT = FALSE
    /\ \E p \in GatePool : store = <<p>>
    /\ cursorFile = CursorAbsent /\ lockFile = NoLock /\ now = 0
    /\ run = [r \in Runs |-> RunIdle] /\ lastOp = NoOp /\ hist = <<>> /\ _kw_cache = NoBuild

\* needs_update(p, make_seo(p)) on the product as read from the store
GateCheck ==
    /\ LET p  == store[1]
           nu == needs_update(p, make_seo(p))
       IN  lastOp' = [NoOp EXCEPT !.op = "needs_update", !.before = p, !.did = nu[1],
                                  !.reason = nu[2], !.gate = 1]
    /\ UNCHANGED <<flags, _kw_cache, store, cursorFile, lockFile, now, run, hist>>

\* update_product_seo(p, make_seo(p)) with every outcome of its PUTs
GateApply ==
    /\ \E outMeta \in Outcomes, outAlt \in [TargetSet(store[1].images) -> Outcomes] :
          LET p   == store[1]
              res == update_product_seo(p, make_seo(p), outMeta, outAlt)
          IN  /\ Attempted(res.reqs, outMeta, outAlt)
              /\ lastOp' = [NoOp EXCEPT !.op = "update_product_seo", !.before = p,
                                        !.did = res.did, !.reason = res.reason,
                                        !.raised = res.raised, !.gate = res.gate,
                                        !.reqs = res.reqs,
                                        !.wrote = IF \E k \in 1..Len(res.reqs) : res.reqs[k].out = "ok"
                                                  THEN {"store"} ELSE {}]
              /\ store' = ApplyReqs(store, res.reqs)
    /\ UNCHANGED <<flags, _kw_cache, cursorFile, lockFile, now, run, hist>>

\* somebody else edits the stored meta title of the product
GateExternalTitle ==
    /\ \E t \in StoredPool(make_seo(store[1]).metafields_global_title_tag) \cup {<<"o">>} :
          /\ t # store[1].metafields_global_title_tag
          /\ store' = [store EXCEPT ![1].metafields_global_title_tag = t]
    /\ lastOp' = [NoOp EXCEPT !.op = "external_title", !.before = store[1]]
    /\ UNCHANGED <<flags, _kw_cache, cursorFile, lockFile, now, run, hist>>

NextGate == GateCheck \/ GateApply \/ GateExternalTitle

SpecGate == InitGate /\ [][NextGate]_vars

(***************************************************************************)
(* Gate and write-adapter properties (SpecGate)                            *)
(***************************************************************************)
\* field by field: does the stored value equal the value composed for p
TitleMatches(p) ==
    Strip(p.metafields_global_title_tag) = Strip(make_seo(p).metafields_global_title_tag)
DescMatches(p) ==
    Strip(p.metafields_global_description_tag) = Strip(make_seo(p).metafields_global_description_tag)
HandleMatches(p) ==
    SEO_UPDATE_HANDLE => Strip(p.handle) = Strip(make_seo(p).handle)
AltMatches(p) ==
    \A i \in 1..Len(p.images) :
        (UPDATE_ALL_IMAGES_ALT \/ i = 1) => Strip(p.images[i].alt) = Strip(make_seo(p).alt_text)

AllMatch(p) == TitleMatches(p) /\ DescMatches(p) /\ HandleMatches(p) /\ AltMatches(p)

MetaPuts(reqs) == Len(SelectSeq(reqs, LAMBDA q : q.kind = "meta"))

\* C6: with OVERWRITE_ALWAYS off, update_product_seo on a product whose every
\* checked field matches sends no request and returns (False, "nochange"); on
\* a product that differs in the meta title only it sends exactly one
\* product-metadata PUT.
C6_NoChangeSendsNothing ==
    (lastOp.op = "update_product_seo" /\ ~OVERWRITE_ALWAYS) =>
        /\ AllMatch(lastOp.before) =>
              (lastOp.reqs = <<>> /\ ~lastOp.did /\ lastOp.reason = "nochange")
        /\ (~TitleMatches(lastOp.before) /\ DescMatches(lastOp.before)
              /\ HandleMatches(lastOp.before) /\ AltMatches(lastOp.before)) =>
              (MetaPuts(lastOp.reqs) = 1 /\ lastOp.reqs[1].kind = "meta")

\* update_product_seo was called on an up-to-date product that has an image
C6_Witness ==
    /\ lastOp.op = "update_product_seo" /\ ~OVERWRITE_ALWAYS
    /\ AllMatch(lastOp.before) /\ lastOp.before.images # <<>>
    /\ lastOp.reqs = <<>>

\* C7: needs_update returns (False, "nochange") exactly when the trimmed meta
\* title and description match, the handle matches if SEO_UPDATE_HANDLE, and
\* the ALT of the first image (of every image if UPDATE_ALL_IMAGES_ALT)
\* matches; without images the ALT check passes.
C7_NoChangeIffAllMatch ==
    lastOp.op = "needs_update" =>
        /\ (~lastOp.did /\ lastOp.reason = "nochange") <=> AllMatch(lastOp.before)
        /\ lastOp.did <=> ~AllMatch(lastOp.before)
        /\ (lastOp.before.images = <<>> /\ TitleMatches(lastOp.before)
              /\ DescMatches(lastOp.before) /\ HandleMatches(lastOp.before)) => ~lastOp.did

\* needs_update answered nochange for a product with two images of which
\* the second has no ALT, only the first image being checked
C7_Witness ==
    /\ lastOp.op = "needs_update" /\ ~lastOp.did
    /\ ~UPDATE_ALL_IMAGES_ALT /\ Len(lastOp.before.images) = 2
    /\ lastOp.before.images[2].alt = <<>>

\* the reason needs_update gives is that of the first differing field
ReasonInOrder(p, reason) ==
    /\ reason = "title_diff" <=> ~TitleMatches(p)
    /\ reason = "desc_diff" <=> (TitleMatches(p) /\ ~DescMatches(p))
    /\ reason = "handle_diff" <=> (TitleMatches(p) /\ DescMatches(p) /\ ~HandleMatches(p))
    /\ reason \in {"alt_diff_first", "alt_diff_all"} <=>
          (TitleMatches(p) /\ DescMatches(p) /\ HandleMatches(p) /\ ~AltMatches(p))
    /\ reason = "alt_diff_all" => UPDATE_ALL_IMAGES_ALT
    /\ reason = "alt_diff_first" => ~UPDATE_ALL_IMAGES_ALT

\* a call of needs_update gave the answer that a call on the same, unchanged
\* product gives
SameAnswerAgain ==
    <<lastOp.did, lastOp.reason>> = needs_update(store[1], make_seo(store[1]))

\* C8 (as claimed): the reason is that of the first difference in the order
\* title, description, handle, ALT; a second call on unchanged inputs answers
\* the same; after an external change to only the stored meta title of an
\* up-to-date product needs_update returns (True, "title_diff").
C8_AnyTitleChangeDetected ==
    /\ lastOp.op = "needs_update" =>
          (ReasonInOrder(lastOp.before, lastOp.reason) /\ SameAnswerAgain)
    /\ (lastOp.op = "external_title" /\ AllMatch(lastOp.before)) =>
          needs_update(store[1], make_seo(store[1])) = <<TRUE, "title_diff">>

\* C8 (amended): as claimed, for an external change that alters the trimmed
\* value of the stored meta title; a change of surrounding whitespace only
\* leaves the answer (False, "nochange").
C8_TrimmedTitleChangeDetected ==
    /\ lastOp.op = "needs_update" =>
          (ReasonInOrder(lastOp.before, lastOp.reason) /\ SameAnswerAgain)
    /\ (lastOp.op = "external_title" /\ AllMatch(lastOp.before)) =>
          needs_update(store[1], make_seo(store[1])) =
              IF Strip(store[1].metafields_global_title_tag)
                    # Strip(lastOp.before.metafields_global_title_tag)
              THEN <<TRUE, "title_diff">> ELSE <<FALSE, "nochange">>

\* the meta title of an up-to-date product was changed from outside to a
\* title that differs after trimming
C8_Witness ==
    /\ lastOp.op = "external_title" /\ AllMatch(lastOp.before)
    /\ lastOp.before.images # <<>>
    /\ Strip(store[1].metafields_global_title_tag)
          # Strip(lastOp.before.metafields_global_title_tag)

AllOk(images) == [i \in TargetSet(images) |-> "ok"]

\* C9: after update_product_seo returned (True, reason), needs_update on the
\* product re-read from the store, with make_seo recomputed from it, returns
\* (False, "nochange"); with the gate in use (OVERWRITE_ALWAYS off) applying
\* again sends no request and reports nochange.
C9_ApplyIsIdempotent ==
    (lastOp.op = "update_product_seo" /\ lastOp.did) =>
        LET p == store[1]
        IN  /\ needs_update(p, make_seo(p)) = <<FALSE, "nochange">>
            /\ ~OVERWRITE_ALWAYS =>
                  LET again == update_product_seo(p, make_seo(p), "ok", AllOk(p.images))
                  IN  again.reqs = <<>> /\ ~again.did /\ again.reason = "nochange"

\* a successful update that rewrote the handle and the ALT of two images
C9_Witness ==
    /\ lastOp.op = "update_product_seo" /\ lastOp.did
    /\ SEO_UPDATE_HANDLE /\ UPDATE_ALL_IMAGES_ALT
    /\ Len(lastOp.reqs) = 3
    /\ lastOp.before.handle # store[1].handle
    /\ lastOp.before.images[2].alt # store[1].images[2].alt

(***************************************************************************)
(* Auto import                                                             *)
(***************************************************************************)
MIN_PRICE == 2
ALLOW_CATEGORIES ==
    { "phone", "magsafe", "charger", "case", "cable", "stand", "holder",
      "power bank", "powerbank", "pet", "cat", "dog", "wearable" }

\* a feed item; kw stands for the words of its title and tags
FeedItem(title, kw, price, in_stock, shippable) ==
    [title |-> title, kw |-> kw, price |-> price, in_stock |-> in_stock,
     shippable_to_na_eu |-> shippable]

\* the feed behind PRODUCT_FEED_URL: one acceptable item, one below MIN_PRICE
Feed ==
    << FeedItem(<<"c">>, "case", 5, TRUE, TRUE),
       FeedItem(<<"x">>, "cable", 1, TRUE, TRUE) >>

should_exclude(item) ==
    IF item.price < MIN_PRICE THEN <<TRUE, "price">>
    ELSE IF item.kw \notin ALLOW_CATEGORIES THEN <<TRUE, "category_not_allowed">>
    ELSE IF ~item.in_stock THEN <<TRUE, "oos">>
    ELSE IF ~item.shippable_to_na_eu THEN <<TRUE, "ship_unavailable">>
    ELSE <<FALSE, "">>

CreateReq(item, out) ==
    [ kind |-> "create", pid |-> 0, img |-> 0, sets_handle |-> FALSE, handle |-> <<>>,
      title |-> item.title, desc |-> <<>>, alt |-> <<>>, out |-> out ]

\* POST /products.json: the store gives the product the next id, a handle
\* made from its title, and the default status "draft" of map_to_shopify
CreateInStore(st, req) ==
    IF req.out # "ok" THEN st
    ELSE Append(st, Product(Len(st) + 1, "draft", req.title, <<>>,
                            ReplaceSpaceDash(Lower(Strip(req.title))), <<>>, <<>>, <<>>))

\* run_auto_import over the feed items, item k's POST ending as outs[k]:
\* the counts (imported, skipped, errors) and the POSTs sent
RECURSIVE import_items(_, _, _)
import_items(items, outs, k) ==
    IF k > Len(items)
    THEN [imported |-> 0, skipped |-> 0, errors |-> 0, reqs |-> <<>>]
    ELSE LET rest == import_items(items, outs, k + 1)
         IN  IF should_exclude(items[k])[1]
             THEN [rest EXCEPT !.skipped = @ + 1]
             ELSE IF outs[k] = "ok"
             THEN [rest EXCEPT !.imported = @ + 1, !.reqs = <<CreateReq(items[k], outs[k])>> \o @]
             ELSE [rest EXCEPT !.errors = @ + 1, !.reqs = <<CreateReq(items[k], outs[k])>> \o @]

run_auto_import(items, outs) ==
    IF ~AUTO_IMPORT
    THEN [imported |-> 0, skipped |-> 0, errors |-> 0, reqs |-> <<>>]
    ELSE import_items(items, outs, 1)

RECURSIVE CreateAll(_, _)
CreateAll(st, reqs) ==
    IF reqs = <<>> THEN st ELSE CreateAll(CreateInStore(st, Head(reqs)), Tail(reqs))

(***************************************************************************)
(* Specification Spec: executions of run_all, each a sequence of steps     *)
(* between which another execution, or time, may advance                   *)
(***************************************************************************)
MaxRunCatalog == 2      \* products in the catalog at the start
MaxRunLimit == 2        \* largest limit passed to run_all
MaxStore == 3           \* the store accepts new products up to this many
TickSecs == 600         \* seconds by which the clock advances in one step

LockStale == 20 * 60

\* a product whose stored values are those make_seo composes for it
DoneProduct(id) ==
    LET b   == BlankProduct(id)
        seo == make_seo(b)
    IN  [b EXCEPT !.metafields_global_title_tag = seo.metafields_global_title_tag,
                  !.metafields_global_description_tag = seo.metafields_global_description_tag,
                  !.images = <<[id |-> 1, alt |-> seo.alt_text]>>]

ArchivedProduct(id) == [BlankProduct(id) EXCEPT !.status = "archived"]

RunPool(id) == {BlankProduct(id), DoneProduct(id), ArchivedProduct(id)}

RunCatalogs ==
    UNION { { st \in [1..m -> UNION {RunPool(i) : i \in 1..m}] : \A i \in 1..m : st[i].id = i }
            : m \in 0..MaxRunCatalog }

\* the catalog of the overlapping executions
OverlapCatalogs == { <<DoneProduct(1), BlankProduct(2)>> }

\* one execution of run_all; the lock file is absent or was left behind by
\* an execution that died.  UPDATE_ALL_IMAGES_ALT stays at its default: the
\* products of RunPool carry at most one image, for which both ALT scopes
\* coincide (SpecGate covers products with several images)
Init ==
    /\ OVERWRITE_ALWAYS \in BOOLEAN /\ AUTO_IMPORT \in BOOLEAN
    /\ SEO_UPDATE_HANDLE \in BOOLEAN /\ UPDATE_ALL_IMAGES_ALT = FALSE
    /\ store \in RunCatalogs
    /\ cursorFile = CursorAbsent
    /\ lockFile \in {NoLock, [exists |-> TRUE, mtime |-> 0]} /\ now = 0
    /\ \E dry \in BOOLEAN, limit \in 0..MaxRunLimit :
          run = [r \in Runs |-> IF r = 1 THEN [RunIdle EXCEPT !.dry = dry, !.limit = limit]
                                ELSE [RunIdle EXCEPT !.pc = "absent"]]
    /\ lastOp = NoOp /\ hist = <<>> /\ _kw_cache = NoBuild

\* two executions of run_all(limit=...) that may overlap, dry off, every
\* flag at its default
InitOverlap ==
    /\ OVERWRITE_ALWAYS = FALSE /\ AUTO_IMPORT = FALSE
    /\ SEO_UPDATE_HANDLE = FALSE /\ UPDATE_ALL_IMAGES_ALT = FALSE
    /\ store \in OverlapCatalogs
    /\ cursorFile = CursorAbsent
    /\ lockFile = NoLock /\ now = 0
    /\ \E l1 \in 1..MaxRunLimit, l2 \in 0..MaxRunLimit :
          run = [r \in Runs |-> [RunIdle EXCEPT !.limit = IF r = 1 THEN l1 ELSE l2]]
    /\ lastOp = NoOp /\ hist = <<>> /\ _kw_cache = NoBuild

\* a run is inside the body of "with RunLock():"
InBody(r) == run[r].pc \in {"import", "list", "paginate", "save", "loop"}

\* run_all(dry=..., limit=...) is called with the arguments of caller r;
\* the callers being alike, caller 2 is the one that calls second
Start(r) ==
    /\ run[r].pc = "idle"
    /\ r = 2 => run[1].pc # "idle"
    /\ run' = [run EXCEPT ![r].pc = "lock_exists"]
    /\ lastOp' = [NoOp EXCEPT !.op = "start", !.r = r]
    /\ UNCHANGED <<flags, _kw_cache, store, cursorFile, lockFile, now, hist>>

\* RunLock.__enter__: LOCK_PATH.exists()
LockExists(r) ==
    /\ run[r].pc = "lock_exists"
    /\ run' = [run EXCEPT ![r].pc = IF lockFile.exists THEN "lock_stat" ELSE "lock_write"]
    /\ lastOp' = [NoOp EXCEPT !.op = "lock_exists", !.r = r]
    /\ UNCHANGED <<flags, _kw_cache, store, cursorFile, lockFile, now, hist>>

\* the age test treating a lock of any age as held by a running execution
LockStat_stale_blocks(r) ==
    /\ run[r].pc = "lock_stat"
    /\ run' = [run EXCEPT ![r].pc = "import", ![r].blocked = lockFile.exists]
    /\ lastOp' = [NoOp EXCEPT !.op = "lock_stat", !.r = r]
    /\ UNCHANGED <<flags, _kw_cache, store, cursorFile, lockFile, now, hist>>

\* RunLock.__enter__: the age test.  Both the RuntimeError raised for a fresh
\* lock and the error of stat() on a lock removed meanwhile are caught by
\* "except Exception", after which __enter__ returns and the body runs.
LockStat(r) ==
    /\ run[r].pc = "lock_stat"
    /\ IF ~lockFile.exists
       THEN /\ run' = [run EXCEPT ![r].pc = "import"]
            /\ UNCHANGED lockFile
       ELSE IF now - lockFile.mtime < LockStale
       THEN /\ run' = [run EXCEPT ![r].pc = "import", ![r].blocked = TRUE]
            /\ UNCHANGED lockFile
       ELSE /\ run' = [run EXCEPT ![r].pc = "lock_write"]
            /\ lockFile' = NoLock
    /\ lastOp' = [NoOp EXCEPT !.op = "lock_stat", !.r = r,
                              !.wrote = IF lockFile' # lockFile THEN {"lock"} ELSE {}]
    /\ UNCHANGED <<flags, _kw_cache, store, cursorFile, now, hist>>

\* RunLock.__enter__: LOCK_PATH.write_text(now)
LockWrite(r) ==
    /\ run[r].pc = "lock_write"
    /\ lockFile' = [exists |-> TRUE, mtime |-> now]
    /\ run' = [run EXCEPT ![r].pc = "import", ![r].created = TRUE]
    /\ lastOp' = [NoOp EXCEPT !.op = "lock_write", !.r = r, !.wrote = {"lock"}]
    /\ UNCHANGED <<flags, _kw_cache, store, cursorFile, now, hist>>

\* run_auto_import(); a POST succeeds only while the store has room
Import(r) ==
    /\ run[r].pc = "import"
    /\ \E outs \in [1..Len(Feed) -> {"ok", "fail"}] :
          LET res == run_auto_import(Feed, outs)
              st  == CreateAll(store, res.reqs)
          IN  /\ Len(st) <= MaxStore
              /\ \A k \in 1..Len(Feed) :
                    (~AUTO_IMPORT \/ should_exclude(Feed[k])[1]) => outs[k] = "ok"
              /\ store' = st
              /\ lastOp' = [NoOp EXCEPT !.op = "import", !.r = r, !.reqs = res.reqs,
                                        !.wrote = IF st # store THEN {"store"} ELSE {}]
    /\ run' = [run EXCEPT ![r].pc = "list"]
    /\ UNCHANGED <<flags, _kw_cache, cursorFile, lockFile, now, hist>>

\* limit > 0: list_products_round_robin reads the cursor
LoadCursor(r) ==
    /\ run[r].pc = "list" /\ run[r].limit > 0
    /\ run' = [run EXCEPT ![r].pc = "paginate", ![r].since_id = _load_cursor(cursorFile)]
    /\ lastOp' = [NoOp EXCEPT !.op = "load_cursor", !.r = r]
    /\ UNCHANGED <<flags, _kw_cache, store, cursorFile, lockFile, now, hist>>

\* limit <= 0: list_all_products; a raising fetch ends run_all
ListAll(r) ==
    /\ run[r].pc = "list" /\ run[r].limit <= 0
    /\ \E failAt \in 0..1, failKind \in {"fail", "raise"} :
          /\ failAt = 0 => failKind = "fail"
          /\ LET a == list_all_products(store, failAt, failKind)
             IN  /\ run' = [run EXCEPT ![r].pc = IF a.raised THEN "exit" ELSE "loop",
                                       ![r].batch = a.batch, ![r].idx = 1]
                 /\ lastOp' = [NoOp EXCEPT !.op = "list_all", !.r = r, !.raised = a.raised]
    /\ UNCHANGED <<flags, _kw_cache, store, cursorFile, lockFile, now, hist>>

\* the page fetches of list_products_round_robin; a raising fetch ends run_all
Paginate(r) ==
    /\ run[r].pc = "paginate"
    /\ \E failAt \in 0..MaxFailAt, failKind \in {"fail", "raise"} :
          /\ failAt = 0 => failKind = "fail"
          /\ LET l == RRLoop(store, run[r].limit, <<>>, run[r].since_id, FALSE, 1,
                             failAt, failKind)
             IN  /\ failAt <= l.fetches
                 /\ run' = [run EXCEPT ![r].pc = IF l.raised THEN "exit" ELSE "save",
                                       ![r].batch = l.batch, ![r].since_id = l.since_id]
                 /\ lastOp' = [NoOp EXCEPT !.op = "paginate", !.r = r, !.raised = l.raised]
    /\ UNCHANGED <<flags, _kw_cache, store, cursorFile, lockFile, now, hist>>

\* _save_cursor(since_id), and the slice batch[:limit] that is returned
SaveCursor(r) ==
    /\ run[r].pc = "save"
    /\ cursorFile' = _save_cursor(run[r].since_id)
    /\ run' = [run EXCEPT ![r].pc = "loop", ![r].batch = Take(@, run[r].limit), ![r].idx = 1]
    /\ lastOp' = [NoOp EXCEPT !.op = "save_cursor", !.r = r, !.wrote = {"cursor"}]
    /\ UNCHANGED <<flags, _kw_cache, store, lockFile, now, hist>>

\* one pass of the "for p in products" loop of run_all on the product p of
\* the batch: which counter it increments, and what update_product_seo did
\* the loop body whose dry branch asks needs_update whatever OVERWRITE_ALWAYS says
process_product_dry_gated(p, dry, outMeta, outAlt) ==
    IF p.status \notin {"active", "draft"}
    THEN [count |-> "skipped", did |-> FALSE, reason |-> "ineligible", raised |-> FALSE,
          gate |-> 0, reqs |-> <<>>]
    ELSE LET seo == make_seo(p)
         IN  IF dry
             THEN LET nu == needs_update(p, seo)
                  IN  [count |-> IF nu[1] THEN "updated" ELSE "skipped_nochange",
                       did |-> nu[1], reason |-> nu[2], raised |-> FALSE,
                       gate |-> 1, reqs |-> <<>>]
             ELSE LET res == update_product_seo(p, seo, outMeta, outAlt)
                  IN  [count |-> IF res.raised THEN "errors"
                                 ELSE IF res.did THEN "updated"
                                 ELSE IF res.reason = "nochange" THEN "skipped_nochange"
                                 ELSE "errors",
                       did |-> res.did, reason |-> res.reason, raised |-> res.raised,
                       gate |-> res.gate, reqs |-> res.reqs]

\* the loop body without the status test
process_product_any_status(p, dry, outMeta, outAlt) ==
    LET seo == make_seo(p)
    IN  IF dry
        THEN LET nu == IF ~OVERWRITE_ALWAYS THEN needs_update(p, seo) ELSE <<TRUE, "force">>
             IN  [count |-> IF nu[1] THEN "updated" ELSE "skipped_nochange",
                  did |-> nu[1], reason |-> nu[2], raised |-> FALSE,
                  gate |-> IF OVERWRITE_ALWAYS THEN 0 ELSE 1, reqs |-> <<>>]
        ELSE LET res == update_product_seo(p, seo, outMeta, outAlt)
             IN  [count |-> IF res.raised THEN "errors"
                            ELSE IF res.did THEN "updated"
                            ELSE IF res.reason = "nochange" THEN "skipped_nochange"
                            ELSE "errors",
                  did |-> res.did, reason |-> res.reason, raised |-> res.raised,
                  gate |-> res.gate, reqs |-> res.reqs]

process_product(p, dry, outMeta, outAlt) ==
    IF p.status \notin {"active", "draft"}
    THEN [count |-> "skipped", did |-> FALSE, reason |-> "ineligible", raised |-> FALSE,
          gate |-> 0, reqs |-> <<>>]
    ELSE LET seo == make_seo(p)
         IN  IF dry
             THEN LET nu == IF ~OVERWRITE_ALWAYS THEN needs_update(p, seo) ELSE <<TRUE, "force">>
                  IN  [count |-> IF nu[1] THEN "updated" ELSE "skipped_nochange",
                       did |-> nu[1], reason |-> nu[2], raised |-> FALSE,
                       gate |-> IF OVERWRITE_ALWAYS THEN 0 ELSE 1, reqs |-> <<>>]
             ELSE LET res == update_product_seo(p, seo, outMeta, outAlt)
                  IN  [count |-> IF res.raised THEN "errors"
                                 ELSE IF res.did THEN "updated"
                                 ELSE IF res.reason = "nochange" THEN "skipped_nochange"
                                 ELSE "errors",
                       did |-> res.did, reason |-> res.reason, raised |-> res.raised,
                       gate |-> res.gate, reqs |-> res.reqs]

\* the counters of the loop when an unchanged product is counted as skipped
\* and as skipped_nochange
Bump_nochange_twice(rec, count) ==
    [rec EXCEPT !.updated = IF count = "updated" THEN @ + 1 ELSE @,
                !.skipped = IF count \in {"skipped", "skipped_nochange"} THEN @ + 1 ELSE @,
                !.skipped_nochange = IF count = "skipped_nochange" THEN @ + 1 ELSE @,
                !.errors = IF count = "errors" THEN @ + 1 ELSE @]

\* the counters of the loop when a failing product is not recorded
Bump_drops_errors(rec, count) ==
    [rec EXCEPT !.updated = IF count = "updated" THEN @ + 1 ELSE @,
                !.skipped = IF count = "skipped" THEN @ + 1 ELSE @,
                !.skipped_nochange = IF count = "skipped_nochange" THEN @ + 1 ELSE @]

Bump(rec, count) ==
    [rec EXCEPT !.updated = IF count = "updated" THEN @ + 1 ELSE @,
                !.skipped = IF count = "skipped" THEN @ + 1 ELSE @,
                !.skipped_nochange = IF count = "skipped_nochange" THEN @ + 1 ELSE @,
                !.errors = IF count = "errors" THEN @ + 1 ELSE @]

\* the loop body for the next product of the batch
Process(r) ==
    /\ run[r].pc = "loop" /\ run[r].idx <= Len(run[r].batch)
    /\ LET p == run[r].batch[run[r].idx]
       IN  \E outMeta \in Outcomes, outAlt \in [TargetSet(p.images) -> Outcomes] :
              LET res == process_product(p, run[r].dry, outMeta, outAlt)
              IN  /\ Attempted(res.reqs, outMeta, outAlt)
                  /\ store' = ApplyReqs(store, res.reqs)
                  /\ run' = [run EXCEPT ![r] = [Bump(@, res.count) EXCEPT !.idx = @ + 1]]
                  /\ lastOp' = [NoOp EXCEPT !.op = "process", !.r = r, !.before = p,
                                            !.did = res.did, !.reason = res.reason,
                                            !.raised = res.raised, !.gate = res.gate,
                                            !.reqs = res.reqs, !.count = res.count,
                                            !.wrote = IF store' # store THEN {"store"} ELSE {}]
    /\ UNCHANGED <<flags, _kw_cache, cursorFile, lockFile, now, hist>>

\* after the loop: summary, sitemap ping and daily report; none of them
\* touches the store, the cursor or the lock
Finish(r) ==
    /\ run[r].pc = "loop" /\ run[r].idx > Len(run[r].batch)
    /\ run' = [run EXCEPT ![r].pc = "exit"]
    /\ lastOp' = [NoOp EXCEPT !.op = "report", !.r = r]
    /\ UNCHANGED <<flags, _kw_cache, store, cursorFile, lockFile, now, hist>>

\* RunLock.__exit__: LOCK_PATH.unlink(missing_ok=True)
Exit(r) ==
    /\ run[r].pc = "exit"
    /\ lockFile' = NoLock
    /\ run' = [run EXCEPT ![r].pc = "done"]
    /\ lastOp' = [NoOp EXCEPT !.op = "lock_exit", !.r = r,
                              !.wrote = IF lockFile.exists THEN {"lock"} ELSE {}]
    /\ UNCHANGED <<flags, _kw_cache, store, cursorFile, now, hist>>

\* time passes.  The clock is read by the age test of RunLock only, so it
\* advances while a lock exists that is not yet stale and some execution has
\* the age test ahead of it.
Tick ==
    /\ lockFile.exists /\ now - lockFile.mtime < LockStale
    /\ \E r \in Runs : run[r].pc \in {"idle", "lock_exists", "lock_stat"}
    /\ now' = now + TickSecs
    /\ lastOp' = [NoOp EXCEPT !.op = "tick"]
    /\ UNCHANGED <<flags, _kw_cache, store, cursorFile, lockFile, run, hist>>

Next ==
    \/ \E r \in Runs :
          \/ Start(r) \/ LockExists(r) \/ LockStat(r) \/ LockWrite(r)
          \/ Import(r) \/ LoadCursor(r) \/ ListAll(r) \/ Paginate(r) \/ SaveCursor(r)
          \/ Process(r) \/ Finish(r) \/ Exit(r)
    \/ Tick

Spec == Init /\ [][Next]_vars

SpecOverlap == InitOverlap /\ [][Next]_vars

(***************************************************************************)
(* Run lock and orchestrator properties                                    *)
(***************************************************************************)
\* C1 (as claimed): an execution of run_all that found a lock file younger
\* than 20 minutes is never inside the body guarded by RunLock, so that two
\* executions are never both inside it.
C1_FreshLockKeepsRunOut ==
    \A r \in Runs : run[r].blocked => ~InBody(r)

\* an execution has read the cursor file and not yet written the new cursor
CursorSection(r) == run[r].pc \in {"paginate", "save"}

\* C24 (as claimed): while an execution of run_all is between its read of
\* the cursor file and its write of the new cursor, no other execution reads
\* or writes the cursor file.
C24_CursorReadWriteExclusive ==
    \A r \in Runs :
        (lastOp.r = r /\ lastOp.op \in {"load_cursor", "save_cursor"}) =>
            \A o \in Runs \ {r} : ~CursorSection(o)

\* the lock file is at least 20 minutes old
StaleLock == lockFile.exists /\ now - lockFile.mtime >= LockStale

\* C25: an execution of run_all whose age test finds a lock file at least
\* 20 minutes old removes the file and is not blocked; its next step writes
\* a lock stamped with the current time and enters the body.
C25_StaleLockIsReplaced ==
    [][ \A r \in Runs :
          /\ (run[r].pc = "lock_stat" /\ run'[r].pc # "lock_stat" /\ StaleLock) =>
                 /\ lockFile' = NoLock
                 /\ run'[r].pc = "lock_write" /\ ~run'[r].blocked
          /\ (run[r].pc = "lock_write" /\ run'[r].pc # "lock_write") =>
                 /\ lockFile' = [exists |-> TRUE, mtime |-> now]
                 /\ run'[r].pc = "import" /\ run'[r].created /\ ~run'[r].blocked
      ]_vars

\* the execution found the lock left at time 0 when it was 20 minutes old,
\* replaced it and went through its batch
C25_Witness ==
    /\ now >= LockStale /\ run[1].created /\ ~run[1].blocked
    /\ run[1].pc = "loop" /\ run[1].idx > 1
    /\ lockFile = [exists |-> TRUE, mtime |-> now]

\* C39 (as claimed): the exit of an execution removes the lock file only if
\* that execution wrote it, and never while another execution that wrote a
\* lock is still inside the body.
C39_ExitRemovesOwnLockOnly ==
    (lastOp.op = "lock_exit" /\ "lock" \in lastOp.wrote) =>
        /\ run[lastOp.r].created
        /\ \A o \in Runs \ {lastOp.r} : ~(InBody(o) /\ run[o].created)

\* C2 (as claimed): an execution of run_all that found a fresh lock changes
\* nothing: no product write or creation, no cursor write, and the lock file
\* stays in place.
C2_BlockedRunChangesNothing ==
    (lastOp.r \in Runs /\ run[lastOp.r].blocked) => lastOp.wrote = {}

Eligible(p) == p.status \in {"active", "draft"}

AllPutsOk(reqs) == \A k \in 1..Len(reqs) : reqs[k].out = "ok"

\* C10: with OVERWRITE_ALWAYS set, needs_update is not consulted for an
\* eligible product of the batch; in dry mode the product is counted as
\* would-update with reason "force" and nothing is sent; otherwise the
\* metadata PUT of the product is sent, also when its stored values equal the
\* composed ones, and the update is reported with reason "force".
C10_ForceBypassesGate ==
    (OVERWRITE_ALWAYS /\ lastOp.op = "process" /\ Eligible(lastOp.before)) =>
        /\ lastOp.gate = 0
        /\ IF run[lastOp.r].dry
           THEN lastOp.count = "updated" /\ lastOp.reason = "force" /\ lastOp.reqs = <<>>
           ELSE /\ lastOp.reqs # <<>>
                /\ lastOp.reqs[1].kind = "meta" /\ lastOp.reqs[1].pid = lastOp.before.id
                /\ lastOp.did => (lastOp.reason = "force" /\ lastOp.count = "updated")
                /\ AllPutsOk(lastOp.reqs) => lastOp.did

\* with OVERWRITE_ALWAYS set, a product whose stored values already equal the
\* composed ones was written and reported as updated with reason "force"
C10_Witness ==
    /\ OVERWRITE_ALWAYS /\ lastOp.op = "process" /\ ~run[lastOp.r].dry
    /\ AllMatch(lastOp.before) /\ lastOp.before.images # <<>>
    /\ lastOp.did /\ lastOp.reason = "force" /\ Len(lastOp.reqs) = 2

(***************************************************************************)
(* Outcome of the writes of update_product_seo                             *)
(***************************************************************************)
AnyPutNotOk(reqs) == \E k \in 1..Len(reqs) : reqs[k].out # "ok"

\* C11 (as claimed): update_product_seo returns (True, reason) exactly when
\* the metadata PUT and every attempted ALT PUT returned 200/201, and when
\* any of them failed it returns (False, "api_fail").
C11_AnyFailureReturnsApiFail ==
    (lastOp.op = "update_product_seo" /\ lastOp.reqs # <<>>) =>
        /\ lastOp.did <=> AllPutsOk(lastOp.reqs)
        /\ AnyPutNotOk(lastOp.reqs) =>
              (~lastOp.raised /\ ~lastOp.did /\ lastOp.reason = "api_fail")

\* C11 (amended): update_product_seo returns (True, reason) exactly when the
\* metadata PUT and every attempted ALT PUT returned 200/201; when every PUT
\* returned a response and one of them had another status it returns
\* (False, "api_fail"), the ALT PUTs being attempted also after a failed
\* metadata PUT; when a PUT ends without a response (its retries exhausted
\* on network errors) the call raises and returns nothing.
C11_ReturnsTrueIffAllPutsOk ==
    (lastOp.op = "update_product_seo" /\ lastOp.reqs # <<>>) =>
        /\ lastOp.did <=> AllPutsOk(lastOp.reqs)
        /\ lastOp.did => lastOp.reason \notin {"api_fail", "nochange", "exception"}
        /\ lastOp.raised <=> lastOp.reqs[Len(lastOp.reqs)].out = "raise"
        /\ (~lastOp.raised /\ AnyPutNotOk(lastOp.reqs)) =>
              (~lastOp.did /\ lastOp.reason = "api_fail")
        /\ ~lastOp.raised =>
              Len(lastOp.reqs) = 1 + Len(AltTargets(lastOp.before.images))

\* the metadata PUT succeeded, the ALT PUT of the second image returned an
\* error status, and the call returned (False, "api_fail")
C11_Witness ==
    /\ lastOp.op = "update_product_seo" /\ Len(lastOp.reqs) = 3
    /\ lastOp.reqs[1].out = "ok" /\ lastOp.reqs[2].out = "ok" /\ lastOp.reqs[3].out = "fail"
    /\ ~lastOp.did /\ lastOp.reason = "api_fail" /\ ~lastOp.raised

(***************************************************************************)
(* Dry mode of run_all                                                     *)
(***************************************************************************)
\* C12 (as claimed): during run_all(dry=True) no POST or PUT request is sent
\* for any product or feed item.
C12_DryRunSendsNoWrite ==
    (lastOp.r \in Runs /\ run[lastOp.r].dry) => (lastOp.reqs = <<>> /\ "store" \notin lastOp.wrote)

\* the dict run_all returns
Summary(rec) ==
    [updated_seo |-> rec.updated, skipped |-> rec.skipped + rec.skipped_nochange,
     errors |-> rec.errors]

\* the summary of a run over batch in the given mode when every write succeeds
RECURSIVE Tally(_, _)
Tally(batch, dry) ==
    IF batch = <<>> THEN [updated |-> 0, skipped |-> 0, skipped_nochange |-> 0, errors |-> 0]
    ELSE LET p == Head(batch)
             c == process_product(p, dry, "ok", [i \in TargetSet(p.images) |-> "ok"]).count
         IN  Bump(Tally(Tail(batch), dry), c)

\* the run went through its whole batch and returned its summary
Summarised(r) == run[r].pc = "exit" /\ run[r].idx > Len(run[r].batch)

\* C13: a finished dry run reports the updated_seo and skipped counts that a
\* real run over the same batch reports when all its writes succeed, and a
\* real run without error reports those of a dry run; each product is
\* counted as would-update exactly when the real run would write it.
C13_DryCountsLikeRealRun ==
    /\ \A r \in Runs :
          (Summarised(r) /\ (run[r].dry \/ run[r].errors = 0)) =>
              Summary(run[r]) = Summary(Tally(run[r].batch, ~run[r].dry))
    /\ (lastOp.op = "process" /\ run[lastOp.r].dry) =>
          LET p == lastOp.before
              real == process_product(p, FALSE, "ok", [i \in TargetSet(p.images) |-> "ok"])
          IN  /\ lastOp.count = real.count
              /\ (lastOp.count = "updated") <=> (real.reqs # <<>>)

\* a dry run over a batch of two products ended with one would-update and
\* one skipped for no change
C13_Witness ==
    /\ Summarised(1) /\ run[1].dry /\ Len(run[1].batch) = 2
    /\ run[1].updated = 1 /\ run[1].skipped_nochange = 1

(***************************************************************************)
(* The cursor file after a call of list_products_round_robin               *)
(***************************************************************************)
LastCall == hist[Len(hist)]

LastId(ids) == IF ids = <<>> THEN None ELSE ids[Len(ids)]

\* C14 (as claimed): after a call with limit > 0 that fetched a product the
\* cursor file holds the id of the last product of the returned batch; after
\* a call that fetched none the file was not written and is as it was.
C14_CursorWrittenOnlyIfFetched ==
    (hist # <<>> /\ BatchSize > 0 /\ ~LastCall.raised) =>
        /\ LastCall.fetched > 0 => cursorFile = CursorJson(LastId(LastCall.ids))
        /\ LastCall.fetched = 0 => (~LastCall.saved /\ cursorFile = LastCall.file_before)

\* C14 (amended): every call with limit > 0 that returns writes the cursor
\* file.  After a call whose fetches all succeeded and that fetched a product
\* the file holds the id of the last product of the returned batch; after a
\* call that fetched no product it holds 0 if the call had wrapped around
\* and the value it loaded (0 if none) otherwise.  A call that raises leaves
\* the file alone.
C14_CursorAlwaysWritten ==
    (hist # <<>> /\ BatchSize > 0) =>
        /\ LastCall.raised => (~LastCall.saved /\ cursorFile = LastCall.file_before)
        /\ ~LastCall.raised => (LastCall.saved /\ cursorFile \notin {CursorAbsent, CursorCorrupt})
        /\ (~LastCall.raised /\ LastCall.ok /\ LastCall.fetched > 0) =>
              cursorFile = CursorJson(LastId(LastCall.ids))
        /\ (~LastCall.raised /\ LastCall.fetched = 0) =>
              cursorFile = CursorJson(IF LastCall.wrapped THEN 0 ELSE LastCall.loaded)

\* a call that found the cursor on the last product, wrapped around, fetched
\* nothing because the next fetch failed, and replaced the cursor by 0
C14_Witness ==
    /\ hist # <<>> /\ BatchSize > 0 /\ CatalogSize > 0
    /\ LastCall.file_before = CursorJson(CatalogSize)
    /\ LastCall.fetched = 0 /\ LastCall.wrapped /\ ~LastCall.raised
    /\ cursorFile = CursorJson(0)

\* C15 (as claimed): when a page fetch of list_products_round_robin fails,
\* by an error status or by a network failure that exhausts its retries,
\* the call returns the products accumulated so far and the cursor is saved
\* as the id of the last of them.
C15_FailedFetchReturnsPartial ==
    (hist # <<>> /\ BatchSize > 0 /\ ~LastCall.ok) =>
        /\ ~LastCall.raised
        /\ Len(LastCall.ids) = LastCall.fetched
        /\ LastCall.saved
        /\ LastCall.fetched > 0 => cursorFile = CursorJson(LastId(LastCall.ids))

(***************************************************************************)
(* Errors on single products                                               *)
(***************************************************************************)
Counted(rec) == rec.updated + rec.skipped + rec.skipped_nochange + rec.errors

\* C16: a product whose write fails or raises is recorded as one error and
\* the loop of run_all goes on: every product of the batch visited so far was
\* counted exactly once, and the run that finished its loop returns counts
\* that cover the whole batch.
C16_ProductErrorNeverStopsRun ==
    /\ (lastOp.op = "process" /\ (lastOp.raised \/ AnyPutNotOk(lastOp.reqs))) =>
          /\ lastOp.count = "errors"
          /\ run[lastOp.r].pc = "loop" /\ run[lastOp.r].errors >= 1
    /\ \A r \in Runs :
          /\ run[r].pc = "loop" =>
                (run[r].idx <= Len(run[r].batch) + 1 /\ Counted(run[r]) = run[r].idx - 1)
          /\ Summarised(r) =>
                /\ Counted(run[r]) = Len(run[r].batch)
                /\ Summary(run[r]).updated_seo + Summary(run[r]).skipped
                      + Summary(run[r]).errors = Len(run[r].batch)

\* the second product of the batch was updated after the first one had been
\* recorded as an error
C16_Witness ==
    /\ lastOp.op = "process" /\ lastOp.count = "updated" /\ lastOp.did
    /\ run[lastOp.r].idx = 3 /\ run[lastOp.r].errors = 1 /\ run[lastOp.r].updated = 1

\* C40: a pass of the loop of run_all over a product whose status is neither
\* "active" nor "draft" sends no request, does not consult the gate, leaves
\* the store as it is and counts the product as skipped.
C40_IneligibleProductNeverWritten ==
    (lastOp.op = "process" /\ lastOp.before.status \notin {"active", "draft"}) =>
        /\ lastOp.reqs = <<>> /\ lastOp.gate = 0 /\ ~lastOp.did
        /\ lastOp.count = "skipped" /\ lastOp.wrote = {}

\* a real run with OVERWRITE_ALWAYS on passed over an archived product that
\* has no stored meta fields
C40_Witness ==
    /\ lastOp.op = "process" /\ lastOp.before.status = "archived"
    /\ lastOp.before.metafields_global_title_tag = <<>>
    /\ ~run[lastOp.r].dry /\ OVERWRITE_ALWAYS /\ run[lastOp.r].skipped = 1

\* products of the batch whose status is neither "active" nor "draft"
Ineligible(batch) ==
    Cardinality({n \in 1..Len(batch) : batch[n].status \notin {"active", "draft"}})

\* C38: when run_all returns, in dry and in real mode, the four counters add
\* up to the size of the selected batch, the returned updated_seo + skipped +
\* errors equals that size, the count of ineligible products is the number
\* of products of the batch that are neither active nor draft, and each
\* step of the loop names exactly one of the four counters.
C38_EachProductCountedOnce ==
    /\ lastOp.op = "process" =>
          lastOp.count \in {"updated", "skipped", "skipped_nochange", "errors"}
    /\ \A r \in Runs :
          Summarised(r) =>
              LET s == Summary(run[r])
              IN  /\ s.updated_seo + s.skipped + s.errors = Len(run[r].batch)
                  /\ run[r].skipped = Ineligible(run[r].batch)
                  /\ s.skipped = run[r].skipped + run[r].skipped_nochange
                  /\ run[r].dry => run[r].errors = 0

\* a real run over an archived product and one whose write failed, and
\* its summary
C38_Witness ==
    /\ Summarised(1) /\ ~run[1].dry /\ Len(run[1].batch) = 2
    /\ run[1].skipped = 1 /\ run[1].errors = 1

(***************************************************************************)
(* The three HTTP wrappers.  A script gives the outcome of the n-th        *)
(* request sent to the server: the outcomes of its prefix, then its tail   *)
(* for ever.  Each wrapper is computed as its loop runs and reports how    *)
(* many requests it sent and how the call ended.                           *)
(***************************************************************************)
\* outcomes of one request: 200/201; 429; 500, 502, 503 or 504; another
\* 5xx such as 501; a 4xx other than 429 such as 404; no response at all
\* (requests.RequestException: connection error or timeout)
Kinds == {"ok", "r429", "r500", "r501", "r404", "neterr"}

MaxPrefix == 2

Scripts == { [prefix |-> pre, tail |-> t] :
               pre \in UNION { [1..n -> Kinds] : n \in 0..MaxPrefix }, t \in Kinds }

Resp(script, n) == IF n <= Len(script.prefix) THEN script.prefix[n] ELSE script.tail

\* a status list that holds every status >= 400
RetryStatus_every_error(k) == k \in {"r429", "r500", "r501", "r404"}

\* the status lists (429, 500, 502, 503, 504) of _retry and of retry()
RetryStatus(k) == k \in {"r429", "r500"}

HttpError(k) == k \in {"r429", "r500", "r501", "r404"}

\* services/importer._retry: tries and the loop "for i in range(tries)"
tries == 4

RECURSIVE retry_loop(_, _, _)
retry_loop(script, i, last) ==
    IF i >= tries
    THEN IF last \in Kinds \ {"neterr"}
         THEN [sent |-> i, end |-> "return", status |-> last]
         ELSE [sent |-> i, end |-> "raise", status |-> last]
    ELSE LET r == Resp(script, i + 1)
         IN  IF r = "neterr" THEN retry_loop(script, i + 1, r)
             ELSE IF r = "ok" THEN [sent |-> i + 1, end |-> "return", status |-> r]
             ELSE IF RetryStatus(r) THEN retry_loop(script, i + 1, r)
             ELSE [sent |-> i + 1, end |-> "return", status |-> r]

_retry(script) == retry_loop(script, 0, "none")

\* jobs/importer._request: "for attempt in range(5)"; a 429 and a network
\* error continue, every other status >= 400 raises HTTPError and breaks
JobAttempts == 5

RECURSIVE request_loop(_, _)
request_loop(script, attempt) ==
    IF attempt >= JobAttempts
    THEN [sent |-> attempt, end |-> "raise", status |-> Resp(script, attempt)]
    ELSE LET r == Resp(script, attempt + 1)
         IN  IF r = "r429" \/ r = "neterr" THEN request_loop(script, attempt + 1)
             ELSE IF HttpError(r) THEN [sent |-> attempt + 1, end |-> "raise", status |-> r]
             ELSE [sent |-> attempt + 1, end |-> "return", status |-> r]

_request(script) == request_loop(script, 0)

\* main.retry(max_attempts=3) around a function fn that sends requests:
\* fn(script, n) is the call of the wrapped function when n requests have
\* been sent already
max_attempts == 3

\* the body of main.http: one request, raise_for_status on a status >= 400
http_body(script, n) ==
    LET r == Resp(script, n + 1)
    IN  [sent |-> n + 1, end |-> IF r = "ok" THEN "return" ELSE "raise", status |-> r]

\* what inner() of the decorator does with the outcome res of attempt
\* number attempt: "return", "raise" or "again"
retry_decision(res, attempt) ==
    IF res.end = "return" THEN "return"
    ELSE IF HttpError(res.status)
         THEN IF attempt >= max_attempts \/ ~RetryStatus(res.status) THEN "raise" ELSE "again"
         ELSE IF attempt >= max_attempts THEN "raise" ELSE "again"

\* http = retry()(http_body)
RECURSIVE http_loop(_, _, _)
http_loop(script, attempt, n) ==
    LET res == http_body(script, n)
        d   == retry_decision(res, attempt)
    IN  IF d = "again" THEN http_loop(script, attempt + 1, res.sent)
        ELSE [sent |-> res.sent, end |-> d, status |-> res.status]

http(script, n) == http_loop(script, 1, n)

\* a function decorated with @retry() whose body calls http() once:
\* shopify_get_products, shopify_update_seo_rest, _create_product
RECURSIVE decorated_loop(_, _, _)
decorated_loop(script, attempt, n) ==
    LET res == http(script, n)
        d   == retry_decision(res, attempt)
    IN  IF d = "again" THEN decorated_loop(script, attempt + 1, res.sent)
        ELSE [sent |-> res.sent, end |-> d, status |-> res.status]

shopify_get_products(script) == decorated_loop(script, 1, 0)

\* the cap on the requests of one logical call of each wrapper
Cap(w) == CASE w = "_retry"   -> tries
            [] w = "_request" -> JobAttempts
            [] OTHER          -> max_attempts

Wrappers == {"_retry", "_request", "http", "shopify_get_products"}

InitHttp ==
    /\ OVERWRITE_ALWAYS = FALSE /\ AUTO_IMPORT = FALSE
    /\ SEO_UPDATE_HANDLE = FALSE /\ UPDATE_ALL_IMAGES_ALT = FALSE
    /\ store = <<>> /\ cursorFile = CursorAbsent /\ lockFile = NoLock /\ now = 0
    /\ run = [r \in Runs |-> RunIdle] /\ lastOp = NoOp /\ hist = <<>> /\ _kw_cache = NoBuild

\* one logical call through wrapper w against a server behaving as script
Called(w, script, res) ==
    /\ hist = <<>>
    /\ hist' = Append(hist, [entry |-> "call", store_set |-> TRUE, token_set |-> TRUE,
                             aborted |-> FALSE, wrapper |-> w, script |-> script,
                             sent |-> res.sent, end |-> res.end, status |-> res.status])
    /\ lastOp' = [NoOp EXCEPT !.op = w, !.raised = res.end = "raise"]
    /\ UNCHANGED <<flags, _kw_cache, store, cursorFile, lockFile, now, run>>

CallRetry == \E sc \in Scripts : Called("_retry", sc, _retry(sc))

CallRequest == \E sc \in Scripts : Called("_request", sc, _request(sc))

CallHttp == \E sc \in Scripts : Called("http", sc, http(sc, 0))

CallDecorated == \E sc \in Scripts : Called("shopify_get_products", sc, shopify_get_products(sc))

(***************************************************************************)
(* The run entry points and the configuration they need: what each does    *)
(* up to the end of its first network call                                 *)
(***************************************************************************)
Aborted == [wrapper |-> "none", aborted |-> TRUE, sent |-> 0, end |-> "abort", status |-> "none"]

Through(w, res) ==
    [wrapper |-> w, aborted |-> FALSE, sent |-> res.sent, end |-> res.end, status |-> res.status]

\* how the server answers: no host without SHOPIFY_STORE, 401 without token
EnvScripts(store_set, token_set) ==
    IF ~store_set THEN {[prefix |-> <<>>, tail |-> "neterr"]}
    ELSE IF ~token_set THEN {[prefix |-> <<>>, tail |-> "r404"]}
    ELSE Scripts

\* jobs/importer.run: both variables are checked, then run_all starts with
\* _connectivity_check, a GET through _request
jobs_run(store_set, token_set, sc) ==
    IF ~store_set \/ ~token_set THEN Aborted ELSE Through("_request", _request(sc))

\* services/importer: importing the module raises without SHOPIFY_STORE and
\* only warns without SHOPIFY_ADMIN_TOKEN; run_all then GETs shop.json
services_run_all(store_set, token_set, sc) ==
    IF ~store_set THEN Aborted ELSE Through("_retry", _retry(sc))

\* main.py /seo/optimize: 400 without ADMIN_TOKEN; then the keyword map
\* (shopify_get_all_products through http, unless cached) and
\* shopify_get_products
seo_optimize(store_set, token_set, cached, sc) ==
    IF ~token_set THEN Aborted
    ELSE IF cached THEN Through("shopify_get_products", shopify_get_products(sc))
    ELSE Through("http", http(sc, 0))

\* main.py /seo/keywords/run: _get_keyword_map(force=True) at once
seo_keywords_run(store_set, token_set, sc) == Through("http", http(sc, 0))

Entered(e, store_set, token_set, sc, res) ==
    /\ hist = <<>>
    /\ hist' = Append(hist, [entry |-> e, store_set |-> store_set, token_set |-> token_set,
                             aborted |-> res.aborted, wrapper |-> res.wrapper, script |-> sc,
                             sent |-> res.sent, end |-> res.end, status |-> res.status])
    /\ lastOp' = [NoOp EXCEPT !.op = e, !.raised = res.end = "raise"]
    /\ UNCHANGED <<flags, _kw_cache, store, cursorFile, lockFile, now, run>>

RunJobs ==
    \E st, tk \in BOOLEAN : \E sc \in EnvScripts(st, tk) :
        Entered("jobs.run", st, tk, sc, jobs_run(st, tk, sc))

RunServices ==
    \E st, tk \in BOOLEAN : \E sc \in EnvScripts(st, tk) :
        Entered("services.run_all", st, tk, sc, services_run_all(st, tk, sc))

SeoOptimize ==
    \E st, tk, cached \in BOOLEAN : \E sc \in EnvScripts(st, tk) :
        Entered("/seo/optimize", st, tk, sc, seo_optimize(st, tk, cached, sc))

SeoKeywordsRun ==
    \E st, tk \in BOOLEAN : \E sc \in EnvScripts(st, tk) :
        Entered("/seo/keywords/run", st, tk, sc, seo_keywords_run(st, tk, sc))

NextHttp ==
    \/ CallRetry \/ CallRequest \/ CallHttp \/ CallDecorated
    \/ RunJobs \/ RunServices \/ SeoOptimize \/ SeoKeywordsRun

SpecHttp == InitHttp /\ [][NextHttp]_vars

\* a response or failure the wrappers are to retry: 429, a 5xx of the retry
\* lists, a network error or timeout
Transient(k) == k \in {"r429", "r500", "neterr"}

\* C17 (as claimed): each wrapper re-attempts a call that got 429, 5xx or a
\* network error until it succeeds or its attempt bound is reached: a call
\* whose last request ended that way has used up its attempts.
C17_TransientFailuresRetried ==
    \A i \in 1..Len(hist) :
        (hist[i].sent > 0 /\ Transient(Resp(hist[i].script, hist[i].sent)))
            => hist[i].sent >= Cap(hist[i].wrapper)

\* C18: a response with a 4xx status other than 429 is never retried by any
\* wrapper: it is the last request of its call, the call fails (_retry
\* returns the 4xx response, the others raise), and when it is the first
\* response exactly one request was sent.
C18_PermanentErrorNotRetried ==
    \A i \in 1..Len(hist) :
        LET h == hist[i]
        IN  h.sent > 0 =>
            /\ \A n \in 1..h.sent :
                  Resp(h.script, n) = "r404" =>
                      /\ n = h.sent /\ h.status = "r404"
                      /\ h.end = IF h.wrapper = "_retry" THEN "return" ELSE "raise"
            /\ Resp(h.script, 1) = "r404" => h.sent = 1

\* a function decorated with @retry() that calls http() got a 404 as its
\* first response: one request, and the call raised
C18_Witness ==
    /\ hist # <<>> /\ hist[1].wrapper = "shopify_get_products"
    /\ Resp(hist[1].script, 1) = "r404" /\ hist[1].sent = 1 /\ hist[1].end = "raise"

\* C19 (as claimed): no logical request sends more HTTP requests than the
\* cap of its wrapper: 4 in _retry, 5 in _request, 3 in main.retry, also for
\* functions decorated with @retry() that call http().
C19_RequestsWithinCap ==
    \A i \in 1..Len(hist) : hist[i].sent <= Cap(hist[i].wrapper)

\* C20 (as claimed): with SHOPIFY_STORE or SHOPIFY_ADMIN_TOKEN missing every
\* run entry point aborts before any network call is issued.
C20_MissingConfigAbortsBeforeNetwork ==
    \A i \in 1..Len(hist) :
        (hist[i].entry # "call" /\ (~hist[i].store_set \/ ~hist[i].token_set)) =>
            (hist[i].aborted /\ hist[i].sent = 0)

(***************************************************************************)
(* main.py: the cached keyword map and the endpoint /seo/optimize          *)
(*                                                                         *)
(* The keyword lists of a build are abstracted to the ids of the products  *)
(* that were scanned, so that a build made before the catalog changed      *)
(* differs from one made after.  SHOPIFY_ADMIN_TOKEN is set.               *)
(***************************************************************************)
KEYWORD_CACHE_TTL_MIN == 60
KEYWORD_LIMIT_DEFAULT == 100
KW_TOP_N_FOR_WEIGHT == 30
MAX_ENDPOINT_LIMIT == 250
MinFetch == 50

MaxKwCatalog == 2       \* products in the catalog of the endpoint runs
MaxKwCalls == 2         \* calls recorded in one behaviour
MaxKwTicks == 2         \* advances of the clock
KwTickSecs == 3600      \* seconds by which the clock advances in one step
MaxKwLimit == 1         \* largest limit= argument of /seo/optimize

\* _cache_valid accepting a build of any age
_cache_valid_forever(cache, t, ttl_min) == cache.built

_cache_valid(cache, t, ttl_min) ==
    IF ~cache.built THEN FALSE ELSE (t - cache.built_at) <= ttl_min * 60

\* shopify_get_all_products followed by the counting: scanOk tells whether
\* the GraphQL pages could be fetched; a failed fetch raises out of http()
_build_keyword_map(cat, limit, scanOk) ==
    [raised |-> ~scanOk,
     unigrams |-> IF scanOk THEN Take(Ids(cat), limit) ELSE <<>>,
     scanned |-> IF scanOk THEN Len(cat) ELSE 0]

_get_keyword_map(cache, cat, t, limit, force, scanOk) ==
    IF ~force /\ _cache_valid(cache, t, KEYWORD_CACHE_TTL_MIN)
    THEN [raised |-> FALSE, cached |-> TRUE, unigrams |-> Take(cache.unigrams, limit),
          scanned |-> FALSE, age_sec |-> t - cache.built_at, cache |-> cache]
    ELSE LET data == _build_keyword_map(cat, limit, scanOk)
         IN  IF data.raised
             THEN [raised |-> TRUE, cached |-> FALSE, unigrams |-> <<>>,
                   scanned |-> TRUE, age_sec |-> 0, cache |-> cache]
             ELSE [raised |-> FALSE, cached |-> FALSE, unigrams |-> data.unigrams,
                   scanned |-> TRUE, age_sec |-> 0,
                   cache |-> [built |-> TRUE, built_at |-> t, unigrams |-> data.unigrams,
                              scanned |-> data.scanned]]

clamp(n, lo, hi) == Max(lo, Min(hi, n))

\* GET products.json?limit=min(250, limit): the first products of the
\* catalog, in the order the store lists a catalog that does not change
products_json(cat, limit) == Take(cat, Min(PageMax, limit))

\* /seo/optimize up to the choice of its targets; every target then goes
\* through the loop body, whose failures are caught per product.  The GET
\* of shopify_get_products succeeds here (SpecHttp has its failures).
seo_optimize_targets(cache, cat, t, limit_arg, rotate, force_kw, scanOk) ==
    LET limit == clamp(limit_arg, 1, MAX_ENDPOINT_LIMIT)
        km == _get_keyword_map(cache, cat, t, Max(KW_TOP_N_FOR_WEIGHT, KEYWORD_LIMIT_DEFAULT),
                               force_kw, scanOk)
        prods == products_json(cat, Max(limit, MinFetch))
    IN  IF km.raised
        THEN [status |-> 500, targets |-> <<>>, km |-> km, cache |-> km.cache]
        ELSE [status |-> 200,
              targets |-> IF ~rotate THEN Take(prods, limit) ELSE Take(prods, limit),
              km |-> km, cache |-> km.cache]

InitKw ==
    /\ OVERWRITE_ALWAYS = FALSE /\ AUTO_IMPORT = FALSE
    /\ SEO_UPDATE_HANDLE = FALSE /\ UPDATE_ALL_IMAGES_ALT = FALSE
    /\ \E m \in 1..MaxKwCatalog : store = [i \in 1..m |-> BlankProduct(i)]
    /\ cursorFile = CursorAbsent /\ lockFile = NoLock /\ now = 0
    /\ run = [r \in Runs |-> RunIdle] /\ lastOp = NoOp /\ hist = <<>>
    /\ _kw_cache = NoBuild

\* time passes between requests
KwTick ==
    /\ now < MaxKwTicks * KwTickSecs
    /\ now' = now + KwTickSecs
    /\ lastOp' = [NoOp EXCEPT !.op = "tick"]
    /\ UNCHANGED <<flags, store, cursorFile, lockFile, run, hist, _kw_cache>>

\* a product is added to the store after a build of the keyword map
KwAddProduct ==
    /\ Len(store) < MaxKwCatalog /\ _kw_cache.built
    /\ _kw_cache.scanned = Len(store)
    /\ store' = Append(store, BlankProduct(Len(store) + 1))
    /\ lastOp' = [NoOp EXCEPT !.op = "add_product"]
    /\ UNCHANGED <<flags, cursorFile, lockFile, now, run, hist, _kw_cache>>

KwEntry(e, force, rotate, limit, res, km) ==
    [entry |-> e, force |-> force, rotate |-> rotate, limit |-> limit, at |-> now,
     before |-> _kw_cache, after |-> km.cache, catalog |-> Ids(store),
     raised |-> km.raised, cached |-> km.cached, scanned |-> km.scanned,
     unigrams |-> km.unigrams, status |-> res.status, targets |-> Ids(res.targets)]

\* /seo/keywords/run: _get_keyword_map(force=True); the keyword routes that
\* read the map call it with force=False
GetKeywordMap ==
    /\ Len(hist) < MaxKwCalls
    /\ \E force, scanOk \in BOOLEAN :
          LET km == _get_keyword_map(_kw_cache, store, now, KEYWORD_LIMIT_DEFAULT,
                                     force, scanOk)
          IN  /\ (~km.scanned) => scanOk
              /\ _kw_cache' = km.cache
              /\ hist' = Append(hist, KwEntry("_get_keyword_map", force, FALSE, 0,
                                              [status |-> IF km.raised THEN 500 ELSE 200,
                                               targets |-> <<>>], km))
              /\ lastOp' = [NoOp EXCEPT !.op = "_get_keyword_map", !.raised = km.raised]
    /\ UNCHANGED <<flags, store, cursorFile, lockFile, now, run>>

\* GET /seo/optimize?limit=..&rotate=..&force_keywords=..
SeoOptimizeRun ==
    /\ Len(hist) < MaxKwCalls
    /\ \E limit \in 1..MaxKwLimit, rotate, force_kw, scanOk \in BOOLEAN :
          LET res == seo_optimize_targets(_kw_cache, store, now, limit, rotate, force_kw,
                                          scanOk)
          IN  /\ (~res.km.scanned) => scanOk
              /\ _kw_cache' = res.cache
              /\ hist' = Append(hist, KwEntry("/seo/optimize", force_kw, rotate, limit,
                                              res, res.km))
              /\ lastOp' = [NoOp EXCEPT !.op = "/seo/optimize", !.raised = res.status = 500]
    /\ UNCHANGED <<flags, store, cursorFile, lockFile, now, run>>

NextKw == KwTick \/ KwAddProduct \/ GetKeywordMap \/ SeoOptimizeRun

SpecKw == InitKw /\ [][NextKw]_vars

(***************************************************************************)
(* Keyword cache and endpoint properties (SpecKw)                          *)
(***************************************************************************)
\* at the time of call e a build existed that was at most the TTL old
FreshBuild(e) ==
    e.before.built /\ e.at - e.before.built_at <= KEYWORD_CACHE_TTL_MIN * 60

\* call e was answered from the slot: the stored lists, no scan, slot kept
FromSlot(e) ==
    /\ e.cached /\ ~e.scanned /\ ~e.raised
    /\ e.unigrams = e.before.unigrams
    /\ e.after = e.before

\* call e scanned the catalog, replaced the slot and returned the new build
Rebuilt(e) ==
    /\ ~e.cached /\ e.scanned /\ ~e.raised
    /\ e.unigrams = e.catalog
    /\ e.after = [built |-> TRUE, built_at |-> e.at, unigrams |-> e.catalog,
                  scanned |-> Len(e.catalog)]

\* C26 (as claimed): _get_keyword_map answers from the slot exactly when
\* force is false and a build at most KEYWORD_CACHE_TTL_MIN minutes old
\* exists; in every other case it scans, replaces the slot and returns
\* cached=False.
C26_CachedIffFreshElseRebuilt ==
    \A i \in 1..Len(hist) :
        IF ~hist[i].force /\ FreshBuild(hist[i]) THEN FromSlot(hist[i]) ELSE Rebuilt(hist[i])

\* C26 (amended): _get_keyword_map answers from the slot exactly when force
\* is false and a build at most KEYWORD_CACHE_TTL_MIN minutes old exists; in
\* every other case it scans the catalog, and when the scan succeeds it
\* replaces the slot and returns cached=False, while a scan that fails raises
\* and leaves the slot as it was.
C26_CachedIffFreshElseScans ==
    \A i \in 1..Len(hist) :
        IF ~hist[i].force /\ FreshBuild(hist[i]) THEN FromSlot(hist[i])
        ELSE IF hist[i].raised
        THEN hist[i].scanned /\ ~hist[i].cached /\ hist[i].after = hist[i].before
        ELSE Rebuilt(hist[i])

\* a build exactly KEYWORD_CACHE_TTL_MIN minutes old was returned although
\* the catalog had grown since it was made
C26_Witness ==
    /\ Len(hist) = 2
    /\ Rebuilt(hist[1])
    /\ hist[2].cached /\ hist[2].at - hist[2].before.built_at = KEYWORD_CACHE_TTL_MIN * 60
    /\ hist[2].unigrams # hist[2].catalog

\* the targets /seo/optimize is asked for: the first limit products
Batch(e) == Take(e.catalog, Min(e.limit, Len(e.catalog)))

\* C27 (as claimed): a call of /seo/optimize whose keyword-map rebuild fails
\* while an expired build exists still answers 200 and processes its batch.
C27_ScanFailureKeepsRunGoing ==
    \A i \in 1..Len(hist) :
        ( /\ hist[i].entry = "/seo/optimize"
          /\ hist[i].before.built /\ ~FreshBuild(hist[i])
          /\ hist[i].raised ) =>
            /\ hist[i].status = 200
            /\ hist[i].targets = Batch(hist[i])

\* C28 (as claimed): of two successive calls of /seo/optimize with
\* rotate=true and the same limit on an unchanged catalog larger than the
\* limit, the second starts at the product after the last one of the first.
C28_NextCallContinuesSweep ==
    \A i \in 1..(Len(hist) - 1) :
        ( /\ hist[i].entry = "/seo/optimize" /\ hist[i + 1].entry = "/seo/optimize"
          /\ hist[i].rotate /\ hist[i + 1].rotate
          /\ hist[i].limit = hist[i + 1].limit
          /\ hist[i].catalog = hist[i + 1].catalog
          /\ Len(hist[i].catalog) > hist[i].limit
          /\ hist[i].status = 200 /\ hist[i + 1].status = 200 ) =>
            LET last == hist[i].targets[Len(hist[i].targets)]
                m    == Len(hist[i].catalog)
            IN  hist[i + 1].targets[1] = (last % m) + 1

(***************************************************************************)
(* main.py: intent classification and keyword choice of /seo/optimize      *)
(***************************************************************************)
INTENT_LEX ==
    [ informational |->
        << <<"h", "o", "w">>,
          <<"w", "h", "a", "t">>,
          <<"g", "u", "i", "d", "e">>,
          <<"t", "i", "p", "s">>,
          <<"t", "u", "t", "o", "r", "i", "a", "l">>,
          <<"r", "e", "v", "i", "e", "w">>,
          <<"s", "i", "z", "e", " ", "g", "u", "i", "d", "e">>,
          <<"f", "a", "q">>,
          <<"b", "e", "n", "e", "f", "i", "t", "s">>,
          <<"p", "r", "o", "s">>,
          <<"c", "o", "n", "s">> >>,
      commercial |->
        << <<"b", "e", "s", "t">>,
          <<"t", "o", "p">>,
          <<"c", "o", "m", "p", "a", "r", "e">>,
          <<"v", "s">>,
          <<"v", "e", "r", "s", "u", "s">>,
          <<"b", "r", "a", "n", "d", "s">>,
          <<"r", "e", "c", "o", "m", "m", "e", "n", "d">>,
          <<"r", "e", "c", "o", "m", "m", "e", "n", "d", "a", "t", "i", "o", "n">>,
          <<"d", "e", "a", "l">>,
          <<"d", "i", "s", "c", "o", "u", "n", "t">> >>,
      transactional |->
        << <<"b", "u", "y">>,
          <<"p", "r", "i", "c", "e">>,
          <<"c", "o", "u", "p", "o", "n">>,
          <<"f", "r", "e", "e", " ", "s", "h", "i", "p", "p", "i", "n", "g">>,
          <<"o", "r", "d", "e", "r">>,
          <<"c", "h", "e", "c", "k", "o", "u", "t">>,
          <<"s", "h", "o", "p">>,
          <<"s", "a", "l", "e">> >> ]

\* the keys of INTENT_LEX and of the score dict, in insertion order
IntentOrder == <<"informational", "commercial", "transactional">>

\* the characters that the regex class \w does not match, among those used
NonWordChars == {" ", "-", ",", ".", "+", "/"}

IsWordChar(c) == c \notin NonWordChars

\* the regex \b between t[i] and t[i+1] (i = 0: start, i = Len(t): end)
WordBoundary(t, i) ==
    LET l == IF i = 0 THEN FALSE ELSE IsWordChar(t[i])
        r == IF i = Len(t) THEN FALSE ELSE IsWordChar(t[i + 1])
    IN  l # r

\* re.search(rf"\b{re.escape(k)}\b", t)
SearchWord(k, t) ==
    \E i \in 1..(Len(t) - Len(k) + 1) :
        /\ SubSeq(t, i, i + Len(k) - 1) = k
        /\ WordBoundary(t, i - 1)
        /\ WordBoundary(t, i + Len(k) - 1)

\* k in s
Contains(s, k) ==
    \E i \in 1..(Len(s) - Len(k) + 1) : SubSeq(s, i, i + Len(k) - 1) = k

\* " ".join(parts)
RECURSIVE JoinSpace(_)
JoinSpace(parts) ==
    IF parts = <<>> THEN <<>>
    ELSE IF Len(parts) = 1 THEN parts[1]
    ELSE parts[1] \o <<" ">> \o JoinSpace(Tail(parts))

\* the score dict after the two loops: matching cues per intent
intent_score(text) ==
    LET t == Lower(text)
    IN  [c \in {IntentOrder[n] : n \in 1..Len(IntentOrder)} |->
            Cardinality({k \in 1..Len(INTENT_LEX[c]) : SearchWord(INTENT_LEX[c][k], t)})]

\* max(score, key=score.get): the first key, in insertion order, whose value
\* no other key exceeds
MaxKey(score) ==
    LET n == CHOOSE n \in 1..Len(IntentOrder) :
                 /\ \A m \in 1..Len(IntentOrder) : score[IntentOrder[m]] <= score[IntentOrder[n]]
                 /\ \A m \in 1..(n - 1) : score[IntentOrder[m]] < score[IntentOrder[n]]
    IN  IntentOrder[n]

classify_intent_from_text(INTENT_CLASSIFY, text) ==
    IF ~INTENT_CLASSIFY THEN "unknown"
    ELSE LET score  == intent_score(text)
             intent == MaxKey(score)
         IN  IF score[intent] > 0 THEN intent ELSE "unknown"

\* _score_kw in units of 1/160: 2.0, 1.0 and 1.5 are 320, 160 and 240, and
\* the factors 1.5, 1.25 and 1.1 are applied in the order of the source.
\* Every value before the last factor is exact in binary floating point and
\* the last factor is monotone, so the order of the scores is that of the
\* floats.
_score_kw(kw, title, body, tags, boost_set) ==
    LET s0 == (IF SearchWord(kw, title) THEN 320 ELSE 0)
              + (IF SearchWord(kw, body) THEN 160 ELSE 0)
              + (IF \E n \in 1..Len(tags) : Contains(Lower(tags[n]), kw) THEN 240 ELSE 0)
        s1 == IF kw \in boost_set THEN (s0 * 3) \div 2 ELSE s0
        s2 == IF Contains(kw, <<" ">>) THEN (s1 * 5) \div 4 ELSE s1
    IN  IF Len(kw) >= 14 THEN (s2 * 11) \div 10 ELSE s2

\* the scored list left in the order of the keyword map
sorted_as_given(pairs) == pairs

\* sorted(pairs, key=lambda x: x[1], reverse=True): descending, and stable
RECURSIVE sorted_desc(_)
sorted_desc(pairs) ==
    IF pairs = <<>> THEN <<>>
    ELSE LET i == CHOOSE i \in 1..Len(pairs) :
                      /\ \A j \in 1..Len(pairs) : pairs[j].sc <= pairs[i].sc
                      /\ \A j \in 1..(i - 1) : pairs[j].sc < pairs[i].sc
         IN  <<pairs[i]>> \o sorted_desc(SubSeq(pairs, 1, i - 1) \o SubSeq(pairs, i + 1, Len(pairs)))

InSeq(x, seq) == \E n \in 1..Len(seq) : seq[n] = x

\* for kw,sc in scored_bi: ... if len(chosen) >= 3: break
RECURSIVE choose_bigrams(_, _)
choose_bigrams(scored, chosen) ==
    IF scored = <<>> THEN chosen
    ELSE IF Head(scored).sc <= 0 THEN choose_bigrams(Tail(scored), chosen)
    ELSE IF Len(chosen) + 1 >= 3 THEN Append(chosen, Head(scored).kw)
    ELSE choose_bigrams(Tail(scored), Append(chosen, Head(scored).kw))

\* for kw,sc in scored_uni: ... if len(chosen) >= 5: break
RECURSIVE choose_unigrams(_, _)
choose_unigrams(scored, chosen) ==
    IF scored = <<>> THEN chosen
    ELSE IF Head(scored).sc <= 0 THEN choose_unigrams(Tail(scored), chosen)
    ELSE IF InSeq(Head(scored).kw, chosen) THEN choose_unigrams(Tail(scored), chosen)
    ELSE IF Len(chosen) + 1 >= 5 THEN Append(chosen, Head(scored).kw)
    ELSE choose_unigrams(Tail(scored), Append(chosen, Head(scored).kw))

\* str.split(" ", 1)[0]
RECURSIVE SplitSpaceFirst(_)
SplitSpaceFirst(s) ==
    IF s = <<>> \/ Head(s) = " " THEN <<>> ELSE <<Head(s)>> \o SplitSpaceFirst(Tail(s))

BestPicks == <<"B", "e", "s", "t", " ", "P", "i", "c", "k", "s">>

Scored(kws, title_l, body_l, tags_list, boost_set) ==
    [n \in 1..Len(kws) |->
        [kw |-> kws[n], sc |-> _score_kw(kws[n], title_l, body_l, tags_list, boost_set)]]

\* the loop body of seo_optimize for product p up to the primary keyword
choose_keywords(p, top_unigrams, top_bigrams) ==
    LET boost_set  == {top_unigrams[n] : n \in 1..Len(top_unigrams)}
                      \cup {top_bigrams[n] : n \in 1..Len(top_bigrams)}
        title_l    == Lower(p.title)
        body_l     == Lower(p.body)
        scored_bi  == sorted_desc(Scored(top_bigrams, title_l, body_l, p.tags, boost_set))
        scored_uni == sorted_desc(Scored(top_unigrams, title_l, body_l, p.tags, boost_set))
        bi         == choose_bigrams(scored_bi, <<>>)
        chosen     == IF Len(bi) < 5 THEN choose_unigrams(scored_uni, bi) ELSE bi
        first      == SplitSpaceFirst(p.title)
    IN  [chosen |-> chosen,
         primary |-> IF chosen # <<>> THEN chosen[1]
                     ELSE IF first # <<>> THEN first ELSE BestPicks,
         scored_bi |-> scored_bi, scored_uni |-> scored_uni]

(***************************************************************************)
(* Specification SpecText: the loop body of /seo/optimize on one product,  *)
(* with the product texts and the keyword lists drawn from pools.  The     *)
(* keyword lists carry no keyword twice: they are the keys of a Counter.   *)
(***************************************************************************)
TitlePool ==
    { <<"B", "e", "s", "t", " ", "b", "u", "y">>,
      <<" ", "t", "o", "p">>,
      <<>>,
      <<"m", "u", "g">>,
      <<"s", "h", "o", "p", " ", "s", "a", "l", "e", " ", "t", "i", "p", "s">>,
      <<"b", "e", "s", "t", " ", "b", "u", "y", " ", "t", "o", "p", " ", "d", "e", "a", "l", " ", "g", "u", "i", "d", "e">> }

BodyPool ==
    { <<>>,
      <<"b", "u", "y">>,
      <<"t", "o", "p", " ", "d", "e", "a", "l", " ", "r", "e", "c", "o", "m", "m", "e", "n", "d", "a", "t", "i", "o", "n">> }

TagsPool ==
    { <<>>,
      <<<<"B", "e", "s", "t">>>>,
      <<<<"s", "a", "l", "e">>, <<"m", "u", "g">>>> }

BigramPool ==
    { <<>>,
      <<<<"b", "e", "s", "t", " ", "b", "u", "y">>, <<"b", "u", "y", " ", "t", "o", "p">>, <<"t", "o", "p", " ", "d", "e", "a", "l">>, <<"d", "e", "a", "l", " ", "g", "u", "i", "d", "e">>>>,
      <<<<"d", "e", "a", "l", " ", "g", "u", "i", "d", "e">>, <<"t", "o", "p", " ", "d", "e", "a", "l">>, <<"s", "h", "o", "p", " ", "s", "a", "l", "e">>>> }

UnigramPool ==
    { <<>>,
      <<<<"b", "e", "s", "t">>, <<"b", "u", "y">>, <<"t", "o", "p">>, <<"d", "e", "a", "l">>, <<"s", "a", "l", "e">>, <<"m", "u", "g">>>>,
      <<<<"m", "u", "g">>, <<"s", "a", "l", "e">>, <<"b", "u", "y">>, <<"r", "e", "c", "o", "m", "m", "e", "n", "d", "a", "t", "i", "o", "n">>>> }

InitText ==
    /\ OVERWRITE_ALWAYS = FALSE /\ AUTO_IMPORT = FALSE
    /\ SEO_UPDATE_HANDLE = FALSE /\ UPDATE_ALL_IMAGES_ALT = FALSE
    /\ store = <<>> /\ cursorFile = CursorAbsent /\ lockFile = NoLock /\ now = 0
    /\ run = [r \in Runs |-> RunIdle] /\ lastOp = NoOp /\ hist = <<>>
    /\ _kw_cache = NoBuild

\* one pass of "for p in targets": intent, scored candidates, chosen
\* keywords and primary keyword of product p
ScoreProduct ==
    /\ hist = <<>>
    /\ \E title \in TitlePool, body \in BodyPool, tags \in TagsPool,
          top_bigrams \in BigramPool, top_unigrams \in UnigramPool,
          INTENT_CLASSIFY \in BOOLEAN :
          LET p == [title |-> title, body |-> body, tags |-> tags]
              intent_input == JoinSpace(<<title, body, JoinSpace(tags)>>)
              res == choose_keywords(p, top_unigrams, top_bigrams)
          IN  hist' = <<[ p |-> p, top_bigrams |-> top_bigrams, top_unigrams |-> top_unigrams,
                          INTENT_CLASSIFY |-> INTENT_CLASSIFY, intent_input |-> intent_input,
                          intent |-> classify_intent_from_text(INTENT_CLASSIFY, intent_input),
                          chosen |-> res.chosen, primary |-> res.primary,
                          scored_bi |-> res.scored_bi, scored_uni |-> res.scored_uni ]>>
    /\ lastOp' = [NoOp EXCEPT !.op = "score_product"]
    /\ UNCHANGED <<flags, _kw_cache, store, cursorFile, lockFile, now, run>>

NextText == ScoreProduct

SpecText == InitText /\ [][NextText]_vars

(***************************************************************************)
(* Intent and keyword choice properties (SpecText)                         *)
(***************************************************************************)
Intents == {IntentOrder[n] : n \in 1..Len(IntentOrder)}

\* intent class c has strictly more matching cues in text than every other
StrictlyMost(c, text) ==
    LET score == intent_score(text)
    IN  \A d \in Intents \ {c} : score[c] > score[d]

\* C29 (as claimed): classify_intent_from_text returns a class only when that
\* class has strictly more matching cues than every other class, and returns
\* "unknown" when no cue matches or when classes tie for the highest count.
C29_TieOrNoMatchIsUnknown ==
    \A n \in 1..Len(hist) :
        LET e == hist[n]
        IN  /\ e.intent \in Intents => StrictlyMost(e.intent, e.intent_input)
            /\ (\A c \in Intents : ~StrictlyMost(c, e.intent_input)) => e.intent = "unknown"

ScoreOf(kw, scored) ==
    LET n == CHOOSE n \in 1..Len(scored) : scored[n].kw = kw IN scored[n].sc

Positive(scored) == {scored[n].kw : n \in {m \in 1..Len(scored) : scored[m].sc > 0}}

\* seq lists members of the scored list in descending score order, and no
\* positive candidate left out scores more than one taken
TopOf(seq, scored) ==
    /\ \A n \in 1..Len(seq) : seq[n] \in Positive(scored)
    /\ \A n \in 1..(Len(seq) - 1) : ScoreOf(seq[n], scored) >= ScoreOf(seq[n + 1], scored)
    /\ \A n \in 1..Len(seq) : \A kw \in Positive(scored) :
          InSeq(kw, seq) \/ ScoreOf(kw, scored) <= ScoreOf(seq[n], scored)

\* C30: the chosen keywords are the min(3, positive bigrams) best bigrams in
\* descending score order followed by the best positive unigrams in
\* descending score order up to 5 keywords in all; none is chosen twice; and
\* the primary keyword is the first chosen one or, when none is chosen, the
\* title up to its first space or else "Best Picks".
C30_ChosenKeywords ==
    \A n \in 1..Len(hist) :
        LET e  == hist[n]
            nb == Min(3, Cardinality(Positive(e.scored_bi)))
            nu == Min(5 - nb, Cardinality(Positive(e.scored_uni)))
            bi == SubSeq(e.chosen, 1, Min(nb, Len(e.chosen)))
            un == SubSeq(e.chosen, Min(nb, Len(e.chosen)) + 1, Len(e.chosen))
        IN  /\ Len(e.chosen) = nb + nu /\ Len(e.chosen) <= 5
            /\ TopOf(bi, e.scored_bi) /\ TopOf(un, e.scored_uni)
            /\ NoDuplicates(e.chosen)
            /\ e.primary = IF e.chosen # <<>> THEN e.chosen[1]
                           ELSE IF SplitSpaceFirst(e.p.title) # <<>>
                           THEN SplitSpaceFirst(e.p.title) ELSE BestPicks

\* a product with four matching bigrams and five matching unigrams got
\* three bigrams and two unigrams, out of lists given in another order
C30_Witness ==
    /\ hist # <<>>
    /\ Cardinality(Positive(hist[1].scored_bi)) >= 4
    /\ Cardinality(Positive(hist[1].scored_uni)) >= 3
    /\ Len(hist[1].chosen) = 5
    /\ [n \in 1..Len(hist[1].scored_bi) |-> hist[1].scored_bi[n].kw] # hist[1].top_bigrams
    /\ [n \in 1..Len(hist[1].scored_uni) |-> hist[1].scored_uni[n].kw] # hist[1].top_unigrams

(***************************************************************************)
(* Meta titles (SpecTitle): _compose_title of main.py and the title of     *)
(* make_seo, applied to names of every length around the maximum           *)
(***************************************************************************)
TITLE_MAX_LEN == 60

CTA_PHRASE == <<"G", "r", "a", "b", " ", "Y", "o", "u", "r", "s">>

SEASONAL_WORDS ==
    << <<"2", "0", "2", "5", " ", "N", "e", "w">>,
       <<"F", "r", "e", "e", " ", "S", "h", "i", "p", "p", "i", "n", "g">>,
       <<"L", "i", "m", "i", "t", "e", "d", " ", "S", "t", "o", "c", "k">> >>

\* the benefit lines /seo/optimize passes, by intent
BenefitLines ==
    { <<"F", "a", "s", "t", " ", "S", "h", "i", "p", "p", "i", "n", "g", " ", "u00b7", " ", "Q", "u", "a", "l", "i", "t", "y", " ", "P", "i", "c", "k", "s">>,
      <<"Q", "u", "i", "c", "k", " ", "T", "i", "p", "s", " ", "u00b7", " ", "H", "o", "n", "e", "s", "t", " ", "R", "e", "v", "i", "e", "w", "s">>,
      <<"T", "o", "p", " ", "P", "i", "c", "k", "s", " ", "u00b7", " ", "E", "x", "p", "e", "r", "t", " ", "C", "o", "m", "p", "a", "r", "e">> }

TitleSeps == {" ", "-", "|", "u00b7", ","}

\* str.rstrip(chars)
RECURSIVE RStripChars(_, _)
RStripChars(s, cs) ==
    IF s # <<>> /\ s[Len(s)] \in cs THEN RStripChars(Take(s, Len(s) - 1), cs) ELSE s

\* the first seasonal word that still fits, with its separator
RECURSIVE seasonal_for(_, _, _, _)
seasonal_for(ws, primary, benefit, cta) ==
    IF ws = <<>> THEN <<>>
    ELSE IF Len(primary) + 3 + Len(benefit) + 3 + Len(cta) + 3 + Len(Head(ws)) <= TITLE_MAX_LEN
         THEN <<" ", "u00b7", " ">> \o Head(ws)
         ELSE seasonal_for(Tail(ws), primary, benefit, cta)

\* _compose_title without the final cut and strip
_compose_title_uncut(primary, benefit, cta) ==
    LET title == primary \o <<" ", "|", " ">> \o benefit
                     \o seasonal_for(SEASONAL_WORDS, primary, benefit, cta)
    IN  IF Len(title) + 3 + Len(cta) <= TITLE_MAX_LEN
        THEN title \o <<" ", "u2013", " ">> \o cta
        ELSE title

_compose_title(primary, benefit, cta) ==
    LET title == primary \o <<" ", "|", " ">> \o benefit
                     \o seasonal_for(SEASONAL_WORDS, primary, benefit, cta)
        full  == IF Len(title) + 3 + Len(cta) <= TITLE_MAX_LEN
                 THEN title \o <<" ", "u2013", " ">> \o cta
                 ELSE title
    IN  RStripChars(Take(full, TITLE_MAX_LEN), TitleSeps)

MaxNameLen == 62

\* names of 0..MaxNameLen letters, bare or ending with a separator
NameTails == {<<>>} \cup { <<c>> : c \in TitleSeps }
NamePool ==
    { [i \in 1..n |-> "a"] \o t : n \in 0..MaxNameLen, t \in NameTails }

InitTitle ==
    /\ OVERWRITE_ALWAYS = FALSE /\ AUTO_IMPORT = FALSE
    /\ SEO_UPDATE_HANDLE = FALSE /\ UPDATE_ALL_IMAGES_ALT = FALSE
    /\ store = <<>> /\ cursorFile = CursorAbsent /\ lockFile = NoLock /\ now = 0
    /\ run = [r \in Runs |-> RunIdle] /\ lastOp = NoOp /\ hist = <<>>
    /\ _kw_cache = NoBuild

\* meta_title = _compose_title(primary, benefit_intent, CTA_PHRASE)
ComposeTitle ==
    /\ hist = <<>>
    /\ \E primary \in NamePool, benefit \in BenefitLines :
          hist' = <<[ fn |-> "_compose_title", name |-> primary, benefit |-> benefit,
                      uncut |-> _compose_title_uncut(primary, benefit, CTA_PHRASE),
                      title |-> _compose_title(primary, benefit, CTA_PHRASE) ]>>
    /\ lastOp' = [NoOp EXCEPT !.op = "compose_title"]
    /\ UNCHANGED <<flags, _kw_cache, store, cursorFile, lockFile, now, run>>

\* make_seo(product)["metafields_global_title_tag"]
MakeSeoTitle ==
    /\ hist = <<>>
    /\ \E title \in NamePool :
          LET product == [title |-> title, handle |-> <<>>, tags |-> <<>>]
          IN  hist' = <<[ fn |-> "make_seo", name |-> title, benefit |-> <<>>,
                          uncut |-> Strip(title) \o TitleSuffix,
                          title |-> make_seo(product).metafields_global_title_tag ]>>
    /\ lastOp' = [NoOp EXCEPT !.op = "make_seo"]
    /\ UNCHANGED <<flags, _kw_cache, store, cursorFile, lockFile, now, run>>

NextTitle == ComposeTitle \/ MakeSeoTitle

SpecTitle == InitTitle /\ [][NextTitle]_vars

\* C31: every meta title of _compose_title and of make_seo is at most
\* TITLE_MAX_LEN (60) characters long, and a title of _compose_title never
\* ends with '-', '|', the middle dot, ',' or a space.
C31_TitleWithinMaxNoTrailingSeparator ==
    \A i \in 1..Len(hist) :
        /\ Len(hist[i].title) <= TITLE_MAX_LEN
        /\ hist[i].fn = "_compose_title" =>
               (hist[i].title = <<>> \/ hist[i].title[Len(hist[i].title)] \notin TitleSeps)

\* a composed title that had to be cut, and whose cut fell after a separator
C31_Witness ==
    /\ hist # <<>>
    /\ hist[1].fn = "_compose_title"
    /\ Len(hist[1].uncut) > TITLE_MAX_LEN
    /\ hist[1].uncut[TITLE_MAX_LEN] \in TitleSeps
    /\ Len(hist[1].title) < TITLE_MAX_LEN
    /\ hist[1].title # <<>>

(***************************************************************************)
(* The per-product step of /seo/optimize (SpecOpt): related-links          *)
(* injection into the body and the GraphQL update with its REST fallback   *)
(***************************************************************************)
RELATED_SECTION_MARKER ==
    <<"<", "!", "-", "-", "r", "e", "l", "a", "t", "e", "d", "-", "p", "i", "c", "k", "s", "-", "-", ">">>
RELATED_TOP_MARKER ==
    <<"<", "!", "-", "-", "r", "e", "l", "a", "t", "e", "d", "-", "p", "i", "c", "k", "s", "-", "t", "o", "p", "-", "-", ">">>

\* sep.join(parts)
RECURSIVE JoinWith(_, _)
JoinWith(parts, sep) ==
    IF parts = <<>> THEN <<>>
    ELSE IF Len(parts) = 1 THEN parts[1]
    ELSE parts[1] \o sep \o JoinWith(Tail(parts), sep)

\* rp.get("title") or "View product"
LinkTitle(rp) == IF rp.title # <<>> THEN rp.title ELSE <<"V", "i", "e", "w", " ", "p", "r", "o", "d", "u", "c", "t">>

\* f'<a href="{url}">{title}</a>' with url = f"/products/{rp.get('handle')}"
Anchor(rp) ==
    <<"<", "a", " ", "h", "r", "e", "f", "=", "\"", "/", "p", "r", "o", "d", "u", "c", "t", "s", "/">> \o rp.handle \o <<"\"", ">">> \o LinkTitle(rp) \o <<"<", "/", "a", ">">>

\* re.sub(r"(</p>)", r"\1\n" + block, html, count=1)
SubFirst(html, k, block) ==
    LET I == { i \in 1..(Len(html) - Len(k) + 1) : SubSeq(html, i, i + Len(k) - 1) = k }
        i == CHOOSE n \in I : \A m \in I : n <= m
    IN  SubSeq(html, 1, i + Len(k) - 1) \o <<"\n">> \o block \o SubSeq(html, i + Len(k), Len(html))

inject_related_links_bottom(body_html, related) ==
    IF related = <<>> THEN body_html
    ELSE IF Contains(body_html, RELATED_SECTION_MARKER) THEN body_html
    ELSE LET lis   == [n \in 1..Len(related) |-> <<"<", "l", "i", ">">> \o Anchor(related[n]) \o <<"<", "/", "l", "i", ">">>]
             block == JoinWith(<<RELATED_SECTION_MARKER, <<"<", "h", "3", ">", "R", "e", "l", "a", "t", "e", "d", " ", "P", "i", "c", "k", "s", "<", "/", "h", "3", ">">>, <<"<", "u", "l", ">">>>>
                                   \o lis \o <<<<"<", "/", "u", "l", ">">>>>, <<"\n">>)
         IN  body_html \o <<"\n", "\n">> \o block

\* the top injection without the test for its marker
inject_related_links_top_unmarked(html, related) ==
    IF related = <<>> THEN html
    ELSE LET picks == [n \in 1..Min(2, Len(related)) |-> Anchor(related[n])]
             block == RELATED_TOP_MARKER \o <<"\n", "<", "p", ">", "Q", "u", "i", "c", "k", " ", "P", "i", "c", "k", "s", ":", " ">>
                          \o JoinWith(picks, <<" ", "u00b7", " ">>) \o <<"<", "/", "p", ">", "\n">>
         IN  IF Contains(html, <<"<", "/", "p", ">">>)
             THEN SubFirst(html, <<"<", "/", "p", ">">>, block)
             ELSE block \o html

inject_related_links_top(html, related) ==
    IF related = <<>> \/ Contains(html, RELATED_TOP_MARKER) THEN html
    ELSE LET picks == [n \in 1..Min(2, Len(related)) |-> Anchor(related[n])]
             block == RELATED_TOP_MARKER \o <<"\n", "<", "p", ">", "Q", "u", "i", "c", "k", " ", "P", "i", "c", "k", "s", ":", " ">>
                          \o JoinWith(picks, <<" ", "u00b7", " ">>) \o <<"<", "/", "p", ">", "\n">>
         IN  IF Contains(html, <<"<", "/", "p", ">">>)
             THEN SubFirst(html, <<"<", "/", "p", ">">>, block)
             ELSE block \o html

NoBody == [set |-> FALSE, html |-> <<>>]

\* lines 1039-1049: the body /seo/optimize proposes for a product, None
\* (NoBody) when nothing is to be injected
propose_body(body_current_html, rel, inject_rel, RELATED_LINKS_MAX) ==
    IF inject_rel /\ RELATED_LINKS_MAX > 0 /\ rel # <<>>
    THEN LET top == IF ~Contains(body_current_html, RELATED_TOP_MARKER)
                    THEN inject_related_links_top(body_current_html, rel)
                    ELSE body_current_html
             bot == IF ~Contains(top, RELATED_SECTION_MARKER)
                    THEN inject_related_links_bottom(top, rel)
                    ELSE top
         IN  IF bot # body_current_html THEN [set |-> TRUE, html |-> bot] ELSE NoBody
    ELSE NoBody

RELATED_LINKS_MAX == 3

\* the answers of productUpdate that come with status 200
GqlAnswers == {"productUpdate", "userErrors", "no_data"}

\* shopify_update_seo_graphql and shopify_update_seo_rest are @retry()
\* functions around one http() call; DRY_RUN returns before any request
NoRequest == [sent |-> 0, end |-> "return", status |-> "none"]

shopify_update_seo_graphql(DRY_RUN, script, answer) ==
    IF DRY_RUN THEN [api |-> "graphql", http |-> NoRequest, ok |-> TRUE, raised |-> FALSE, wrote |-> FALSE,
                     answer |-> "dry_run"]
    ELSE LET res == decorated_loop(script, 1, 0)
         IN  IF res.end = "raise"
             THEN [api |-> "graphql", http |-> res, ok |-> FALSE, raised |-> TRUE, wrote |-> FALSE,
                   answer |-> "none"]
             ELSE [api |-> "graphql", http |-> res, ok |-> answer = "productUpdate",
                   raised |-> FALSE, wrote |-> answer = "productUpdate", answer |-> answer]

shopify_update_seo_rest(DRY_RUN, script) ==
    IF DRY_RUN THEN [api |-> "rest", http |-> NoRequest, ok |-> TRUE, raised |-> FALSE, wrote |-> FALSE,
                     answer |-> "dry_run"]
    ELSE LET res == decorated_loop(script, 1, 0)
         IN  [api |-> "rest", http |-> res, ok |-> res.end = "return",
              raised |-> res.end = "raise", wrote |-> res.end = "return",
              answer |-> IF res.end = "return" THEN "product" ELSE "none"]

\* lines 1055-1060; an exception of either call leaves the try block
update_seo(USE_GRAPHQL, DRY_RUN, gscript, answer, rscript) ==
    IF USE_GRAPHQL
    THEN LET g == shopify_update_seo_graphql(DRY_RUN, gscript, answer)
         IN  IF g.raised THEN <<g>>
             ELSE IF ~g.ok THEN <<g, shopify_update_seo_rest(DRY_RUN, rscript)>>
             ELSE <<g>>
    ELSE <<shopify_update_seo_rest(DRY_RUN, rscript)>>

\* the servers the two updates meet: one that answers and one that keeps
\* failing
UpdateScripts ==
    { [prefix |-> <<>>, tail |-> "ok"],
      [prefix |-> <<>>, tail |-> "r500"] }

\* what lines 1055-1060 can do
UpdateOutcomes(USE_GRAPHQL, DRY_RUN) ==
    { update_seo(USE_GRAPHQL, DRY_RUN, gscript, answer, rscript) :
          gscript \in UpdateScripts, answer \in GqlAnswers, rscript \in UpdateScripts }

Mug == [handle |-> <<"m", "u", "g">>, title |-> <<"M", "u", "g">>]
Cup == [handle |-> <<"c", "u", "p">>, title |-> <<>>]
Jar == [handle |-> <<"j", "a", "r">>, title |-> <<"J", "a", "r">>]

\* results of find_related_products
RelPool == { <<>>, <<Mug>>, <<Cup, Mug, Jar>> }

BodyHtmlPool ==
    { <<>>,
      <<"<", "p", ">", "a", "<", "/", "p", ">">>,
      <<"<", "p", ">", "a", "<", "/", "p", ">", "<", "p", ">", "b", "<", "/", "p", ">">>,
      <<"a">>,
      <<"<", "p", ">", "a", "<", "/", "p", ">">> \o RELATED_SECTION_MARKER,
      RELATED_TOP_MARKER \o <<"a">> }

\* injected is history: an earlier pass sent the product a body
InitOpt ==
    /\ OVERWRITE_ALWAYS = FALSE /\ AUTO_IMPORT = FALSE
    /\ SEO_UPDATE_HANDLE = FALSE /\ UPDATE_ALL_IMAGES_ALT = FALSE
    /\ \E b \in BodyHtmlPool, seo_ok \in BOOLEAN :
          store = <<[id |-> 1, body_html |-> b, existing_seo_ok |-> seo_ok, injected |-> FALSE]>>
    /\ cursorFile = CursorAbsent /\ lockFile = NoLock /\ now = 0
    /\ run = [r \in Runs |-> RunIdle] /\ lastOp = NoOp /\ hist = <<>>
    /\ _kw_cache = NoBuild

\* hist holds the last step only; USE_GRAPHQL and DRY_RUN are read once at
\* start-up and stay what the first pass found
Configured == hist # <<>> /\ hist[1].configured

OptEntry(fn, before, rel) ==
    [ fn |-> fn, before |-> before, rel |-> rel, once |-> before, twice |-> before,
      configured |-> Configured,
      USE_GRAPHQL |-> IF Configured THEN hist[1].USE_GRAPHQL ELSE FALSE,
      DRY_RUN |-> IF Configured THEN hist[1].DRY_RUN ELSE FALSE,
      force |-> FALSE, inject_rel |-> FALSE,
      new_body |-> NoBody, skipped |-> FALSE, calls |-> <<>>, after |-> before,
      injected_before |-> store[1].injected ]

\* inject_related_links_top applied once and twice to a body
InjectTop ==
    /\ \E rel \in RelPool :
          LET b    == store[1].body_html
              once == inject_related_links_top(b, rel)
          IN  hist' = <<[OptEntry("inject_related_links_top", b, rel) EXCEPT
                          !.once = once, !.twice = inject_related_links_top(once, rel)]>>
    /\ lastOp' = [NoOp EXCEPT !.op = "inject_top"]
    /\ UNCHANGED <<flags, _kw_cache, store, cursorFile, lockFile, now, run>>

\* inject_related_links_bottom applied once and twice to a body
InjectBottom ==
    /\ \E rel \in RelPool :
          LET b    == store[1].body_html
              once == inject_related_links_bottom(b, rel)
          IN  hist' = <<[OptEntry("inject_related_links_bottom", b, rel) EXCEPT
                          !.once = once, !.twice = inject_related_links_bottom(once, rel)]>>
    /\ lastOp' = [NoOp EXCEPT !.op = "inject_bottom"]
    /\ UNCHANGED <<flags, _kw_cache, store, cursorFile, lockFile, now, run>>

SameConfig(USE_GRAPHQL, DRY_RUN) ==
    Configured => (hist[1].USE_GRAPHQL = USE_GRAPHQL /\ hist[1].DRY_RUN = DRY_RUN)

\* one pass of "for p in targets" of /seo/optimize over the product, from
\* the related-links step to the update (lines 1034-1076)
OptimizeProduct ==
    /\ \E rel \in RelPool, inject_rel \in BOOLEAN :
          LET p        == store[1]
              new_body == propose_body(p.body_html, rel, inject_rel, RELATED_LINKS_MAX)
          IN  \E force \in BOOLEAN, USE_GRAPHQL \in BOOLEAN, DRY_RUN \in BOOLEAN :
                 /\ SameConfig(USE_GRAPHQL, DRY_RUN)
                 /\ LET skipped == ~force /\ p.existing_seo_ok /\ ~new_body.set
                    IN  \E calls \in IF skipped THEN {<<>>}
                                     ELSE UpdateOutcomes(USE_GRAPHQL, DRY_RUN) :
                           LET wrote == calls # <<>> /\ calls[Len(calls)].wrote
                               after == IF wrote /\ new_body.set THEN new_body.html
                                        ELSE p.body_html
                           IN  /\ store' = <<[p EXCEPT !.body_html = after,
                                                  !.existing_seo_ok = IF wrote THEN TRUE ELSE @,
                                                  !.injected = @ \/ (wrote /\ new_body.set)]>>
                               /\ hist' = <<[OptEntry("seo_optimize", p.body_html, rel) EXCEPT
                                          !.configured = TRUE,
                                          !.USE_GRAPHQL = USE_GRAPHQL, !.DRY_RUN = DRY_RUN,
                                          !.force = force, !.inject_rel = inject_rel,
                                          !.new_body = new_body, !.skipped = skipped,
                                          !.calls = calls, !.after = after]>>
    /\ lastOp' = [NoOp EXCEPT !.op = "optimize_product"]
    /\ UNCHANGED <<flags, _kw_cache, cursorFile, lockFile, now, run>>

NextOpt == InjectTop \/ InjectBottom \/ OptimizeProduct

SpecOpt == InitOpt /\ [][NextOpt]_vars

MarkerOf(fn) ==
    IF fn = "inject_related_links_top" THEN RELATED_TOP_MARKER ELSE RELATED_SECTION_MARKER

\* C32: inject_related_links_top and inject_related_links_bottom return a
\* body that carries their marker unchanged, applying either of them twice
\* gives what applying it once gives, and a pass of /seo/optimize over a
\* product whose body an earlier pass injected proposes no body update.
C32_InjectionIdempotent ==
    \A n \in 1..Len(hist) :
        /\ hist[n].fn \in {"inject_related_links_top", "inject_related_links_bottom"} =>
               /\ Contains(hist[n].before, MarkerOf(hist[n].fn)) => hist[n].once = hist[n].before
               /\ hist[n].twice = hist[n].once
        /\ (hist[n].fn = "seo_optimize" /\ hist[n].injected_before) => ~hist[n].new_body.set

\* a body with a paragraph that an earlier pass gave both blocks, and a
\* later pass that is asked to inject again and proposes nothing
C32_Witness ==
    /\ hist # <<>>
    /\ hist[1].fn = "seo_optimize" /\ hist[1].injected_before
    /\ hist[1].inject_rel /\ hist[1].rel # <<>>
    /\ Contains(hist[1].before, <<"<", "/", "p", ">">>)
    /\ Contains(hist[1].before, RELATED_TOP_MARKER)
    /\ Contains(hist[1].before, RELATED_SECTION_MARKER)
    /\ ~hist[1].new_body.set
    /\ hist[1].after = hist[1].before

\* the calls of a pass that went to the REST update
RestCalls(e) == { n \in 1..Len(e.calls) : e.calls[n].api = "rest" }

\* the GraphQL update of the pass failed: userErrors or no productUpdate in
\* the answer, or an HTTP-level failure
GraphqlFailed(e) == e.calls[1].api = "graphql" /\ ~e.calls[1].ok

\* C34: with USE_GRAPHQL on, the REST update for a product is issued only
\* after the GraphQL update for it failed; whenever the GraphQL update fails
\* (userErrors in the response or an HTTP-level failure) the REST fallback
\* is attempted; when GraphQL succeeds no REST write is made.
C34_RestOnlyAndAlwaysAfterGraphqlFailure ==
    \A n \in 1..Len(hist) :
        (hist[n].fn = "seo_optimize" /\ hist[n].USE_GRAPHQL /\ hist[n].calls # <<>>) =>
            /\ \A c \in RestCalls(hist[n]) : c = 2 /\ GraphqlFailed(hist[n])
            /\ GraphqlFailed(hist[n]) => RestCalls(hist[n]) # {}
            /\ hist[n].calls[1].ok => RestCalls(hist[n]) = {}

(***************************************************************************)
(* The paginated GraphQL scan (SpecScan): shopify_get_all_products over a  *)
(* static catalog, with the page size and the limits of the source         *)
(***************************************************************************)
MAX_PRODUCTS_SCAN == 6000

page_size == 250

\* the values of max_items at the call sites
MaxItemsArgs == {500, 600, 1000, 2000, 5000}

\* a server that never announces a next page
_gql_products_page_no_next(cat, after, first) ==
    [ edges |-> SubSeq(cat, after + 1, Min(Len(cat), after + first)),
      hasNextPage |-> FALSE,
      endCursor |-> Min(Len(cat), after + first) ]

\* products(first, after): the edges behind the cursor, in the order of the
\* catalog; the cursor of an edge is its position, None is 0
_gql_products_page(cat, after, first) ==
    [ edges |-> SubSeq(cat, after + 1, Min(Len(cat), after + first)),
      hasNextPage |-> after + first < Len(cat),
      endCursor |-> Min(Len(cat), after + first) ]

\* the "while True" loop; failAt is the page whose request raises (0: none)
RECURSIVE get_all_loop(_, _, _, _, _, _)
get_all_loop(cat, after, items, max_items, failAt, page) ==
    IF failAt = page
    THEN [raised |-> TRUE, items |-> <<>>, pages |-> page]
    ELSE LET data  == _gql_products_page(cat, after, Min(250, page_size))
             bound == Min(MAX_PRODUCTS_SCAN, max_items)
             \* the edge at which "fetched >= min(...)" becomes true
             k     == Max(1, bound - Len(items))
         IN  IF Len(data.edges) >= k
             THEN [raised |-> FALSE, items |-> items \o Take(data.edges, k), pages |-> page]
             ELSE IF ~data.hasNextPage
             THEN [raised |-> FALSE, items |-> items \o data.edges, pages |-> page]
             ELSE get_all_loop(cat, data.endCursor, items \o data.edges, max_items,
                               failAt, page + 1)

shopify_get_all_products(cat, max_items, failAt) ==
    get_all_loop(cat, None, <<>>, max_items, failAt, 1)

MaxScanCatalog == 610
MaxScanFailAt == 3

InitScan ==
    /\ OVERWRITE_ALWAYS = FALSE /\ AUTO_IMPORT = FALSE
    /\ SEO_UPDATE_HANDLE = FALSE /\ UPDATE_ALL_IMAGES_ALT = FALSE
    /\ \E n \in 0..MaxScanCatalog : store = [i \in 1..n |-> i]
    /\ cursorFile = CursorAbsent /\ lockFile = NoLock /\ now = 0
    /\ run = [r \in Runs |-> RunIdle] /\ lastOp = NoOp /\ hist = <<>>
    /\ _kw_cache = NoBuild

\* one call of shopify_get_all_products(max_items)
GetAllProducts ==
    /\ hist = <<>>
    /\ \E max_items \in MaxItemsArgs, failAt \in 0..MaxScanFailAt :
          LET res == shopify_get_all_products(store, max_items, failAt)
          IN  hist' = <<[ max_items |-> max_items, failAt |-> failAt, raised |-> res.raised,
                          items |-> res.items, pages |-> res.pages ]>>
    /\ lastOp' = [NoOp EXCEPT !.op = "get_all_products"]
    /\ UNCHANGED <<flags, _kw_cache, store, cursorFile, lockFile, now, run>>

NextScan == GetAllProducts

SpecScan == InitScan /\ [][NextScan]_vars

\* C35: shopify_get_all_products(max_items) follows the next-page
\* indicator until it is absent and returns the products in catalog order,
\* never more than min(MAX_PRODUCTS_SCAN, max_items) of them, and the whole
\* catalog when it is smaller than that bound.
C35_ScanReturnsCatalogPrefix ==
    \A n \in 1..Len(hist) :
        ~hist[n].raised =>
            LET bound == Min(MAX_PRODUCTS_SCAN, hist[n].max_items)
            IN  /\ Len(hist[n].items) <= bound
                /\ hist[n].items = Take(store, Len(hist[n].items))
                /\ Len(store) < bound => hist[n].items = store
                /\ Len(store) >= bound => Len(hist[n].items) = bound
                /\ hist[n].pages = (Len(hist[n].items) + page_size - 1) \div page_size
                       \/ (store = <<>> /\ hist[n].pages = 1)

\* a catalog of three pages returned whole, and one cut inside its third
\* page by max_items
C35_Witness ==
    /\ hist # <<>> /\ ~hist[1].raised
    /\ Len(store) > 2 * page_size
    /\ hist[1].pages = 3
    /\ \/ hist[1].items = store /\ Len(store) < hist[1].max_items
       \/ hist[1].items # store /\ Len(hist[1].items) = hist[1].max_items

(***************************************************************************)
(* The keyword cache under concurrent requests (SpecCache): the slot with  *)
(* its params, the assignments of _get_keyword_map one at a time           *)
(***************************************************************************)
KEYWORD_MIN_LEN == 3
KEYWORD_INCLUDE_BIGRAMS == TRUE

\* the catalog's tokens by falling count, and what the filters look at
NTokens == 12
RankedTokens == [k \in 1..NTokens |-> k]
TokenLen(k) == IF k \in {3, 7, 11} THEN 3 ELSE 5
InTitle(k) == k % 2 = 1
RankedBigrams == << <<1, 2>>, <<2, 4>>, <<5, 7>>, <<9, 1>> >>
ScannedProducts == 4

Threads == {1, 2}

NoParams == [limit |-> 0, min_len |-> 0, include_bigrams |-> FALSE, scope |-> "none"]

\* _kw_cache = {"built_at": None, "params": None, "unigrams": [], "bigrams": [], "scanned": 0}
EmptySlot ==
    [ built |-> FALSE, built_at |-> 0, params |-> NoParams, unigrams |-> <<>>,
      bigrams |-> <<>>, scanned |-> 0 ]

\* _build_keyword_map(limit, min_len, include_bigrams, scope) over the
\* catalog: filter the tokens, count, most_common(limit)
build_lists(p) ==
    LET keep(k) == TokenLen(k) >= p.min_len /\ (p.scope = "all" \/ InTitle(k))
        pair(b) == keep(b[1]) /\ keep(b[2])
    IN  [ unigrams |-> Take(SelectSeq(RankedTokens, keep), p.limit),
          bigrams  |-> IF p.include_bigrams
                       THEN Take(SelectSeq(RankedBigrams, pair), p.limit)
                       ELSE <<>>,
          scanned  |-> ScannedProducts ]

NoData == [unigrams |-> <<>>, bigrams |-> <<>>, scanned |-> 0]

NoResult ==
    [ kind |-> "none", unigrams |-> <<>>, bigrams |-> <<>>, params |-> NoParams,
      seen |-> EmptySlot, quiet |-> TRUE ]

ThreadIdle ==
    [ pc |-> "idle", params |-> NoParams, force |-> FALSE, data |-> NoData,
      result |-> NoResult, calls |-> 0 ]

\* the arguments of the callers: /seo/keywords/run (force=True, its own
\* parameters) and /seo/optimize (the configured parameters, force_keywords)
RunArgs ==
    { [limit |-> l, min_len |-> m, include_bigrams |-> i, scope |-> sc] :
          l \in {10, KEYWORD_LIMIT_DEFAULT}, m \in {KEYWORD_MIN_LEN, 4},
          i \in BOOLEAN, sc \in {"all"} }
OptimizeArgs ==
    [ limit |-> Max(KW_TOP_N_FOR_WEIGHT, KEYWORD_LIMIT_DEFAULT), min_len |-> KEYWORD_MIN_LEN,
      include_bigrams |-> KEYWORD_INCLUDE_BIGRAMS, scope |-> "all" ]

MaxCacheCalls == 1

InitCache ==
    /\ OVERWRITE_ALWAYS = FALSE /\ AUTO_IMPORT = FALSE
    /\ SEO_UPDATE_HANDLE = FALSE /\ UPDATE_ALL_IMAGES_ALT = FALSE
    /\ store = <<>> /\ cursorFile = CursorAbsent /\ lockFile = NoLock /\ now = 0
    /\ run = [r \in Threads |-> ThreadIdle] /\ lastOp = NoOp /\ hist = <<>>
    /\ _kw_cache = EmptySlot

\* lines 784-792: the call up to the test; a hit reads the slot and returns
CacheCall(r) ==
    /\ run[r].pc = "idle" /\ run[r].calls < MaxCacheCalls
    /\ \E a \in [params : RunArgs, force : {TRUE}] \cup [params : {OptimizeArgs}, force : BOOLEAN] :
          IF ~a.force /\ _cache_valid(_kw_cache, now, KEYWORD_CACHE_TTL_MIN)
          THEN run' = [run EXCEPT ![r] = [@ EXCEPT
                          !.params = a.params, !.force = a.force, !.calls = @ + 1,
                          !.result = [ kind |-> "hit",
                                       unigrams |-> Take(_kw_cache.unigrams, a.params.limit),
                                       bigrams |-> IF a.params.include_bigrams
                                                   THEN Take(_kw_cache.bigrams, a.params.limit)
                                                   ELSE <<>>,
                                       params |-> _kw_cache.params,
                                       seen |-> _kw_cache,
                                       quiet |-> \A o \in Threads \ {r} : run[o].pc = "idle" ]]]
          ELSE run' = [run EXCEPT ![r] = [@ EXCEPT
                          !.pc = "build", !.params = a.params, !.force = a.force,
                          !.calls = @ + 1, !.result = NoResult]]
    /\ lastOp' = [NoOp EXCEPT !.op = "cache_call", !.r = r]
    /\ UNCHANGED <<flags, _kw_cache, store, cursorFile, lockFile, now, hist>>

\* line 793: the build returns its data, or the scan raises
CacheBuild(r) ==
    /\ run[r].pc = "build"
    /\ \E scanOk \in BOOLEAN :
          IF scanOk
          THEN run' = [run EXCEPT ![r] = [@ EXCEPT !.pc = "a794", !.data = build_lists(run[r].params)]]
          ELSE run' = [run EXCEPT ![r] = [@ EXCEPT !.pc = "idle",
                                             !.result = [NoResult EXCEPT !.kind = "raised",
                                                                         !.seen = _kw_cache]]]
    /\ lastOp' = [NoOp EXCEPT !.op = "cache_build", !.r = r]
    /\ UNCHANGED <<flags, _kw_cache, store, cursorFile, lockFile, now, hist>>

\* lines 794-798: one assignment to the slot
CacheAssign(r) ==
    /\ run[r].pc \in {"a794", "a795", "a796", "a797", "a798"}
    /\ _kw_cache' =
          CASE run[r].pc = "a794" -> [_kw_cache EXCEPT !.built = TRUE, !.built_at = now]
            [] run[r].pc = "a795" -> [_kw_cache EXCEPT !.params = run[r].params]
            [] run[r].pc = "a796" -> [_kw_cache EXCEPT !.unigrams = run[r].data.unigrams]
            [] run[r].pc = "a797" -> [_kw_cache EXCEPT !.bigrams = run[r].data.bigrams]
            [] run[r].pc = "a798" -> [_kw_cache EXCEPT !.scanned = run[r].data.scanned]
    /\ run' = [run EXCEPT ![r].pc =
                  CASE @ = "a794" -> "a795" [] @ = "a795" -> "a796" [] @ = "a796" -> "a797"
                    [] @ = "a797" -> "a798" [] @ = "a798" -> "a799"]
    /\ lastOp' = [NoOp EXCEPT !.op = "cache_assign", !.r = r]
    /\ UNCHANGED <<flags, store, cursorFile, lockFile, now, hist>>

\* line 799: return {**data, "cached": False, "params": _kw_cache["params"]}
CacheReturn(r) ==
    /\ run[r].pc = "a799"
    /\ run' = [run EXCEPT ![r] = [@ EXCEPT
                  !.pc = "idle", !.data = NoData,
                  !.result = [ kind |-> "built", unigrams |-> run[r].data.unigrams,
                               bigrams |-> run[r].data.bigrams, params |-> _kw_cache.params,
                               seen |-> _kw_cache,
                               quiet |-> \A o \in Threads \ {r} : run[o].pc = "idle" ]]]
    /\ lastOp' = [NoOp EXCEPT !.op = "cache_return", !.r = r]
    /\ UNCHANGED <<flags, _kw_cache, store, cursorFile, lockFile, now, hist>>

NextCache ==
    \E r \in Threads : CacheCall(r) \/ CacheBuild(r) \/ CacheAssign(r) \/ CacheReturn(r)

SpecCache == InitCache /\ [][NextCache]_vars

\* the five fields of a slot belong to one build
OneBuild(c) ==
    \/ c = EmptySlot
    \/ /\ c.built
       /\ c.unigrams = build_lists(c.params).unigrams
       /\ c.bigrams = build_lists(c.params).bigrams
       /\ c.scanned = build_lists(c.params).scanned

\* C36: a caller of _get_keyword_map never observes a slot that mixes
\* fields of two builds, also when two requests call it concurrently, and
\* a build that fails leaves the slot unchanged.
C36_CallerSeesOneBuild ==
    \A r \in Threads :
        /\ run[r].result.kind = "hit" => OneBuild(run[r].result.seen)
        /\ (lastOp.op = "cache_build" /\ lastOp.r = r /\ run[r].result.kind = "raised") =>
               run[r].result.seen = _kw_cache

\* C37: a cache hit of _get_keyword_map(limit, min_len, include_bigrams,
\* scope) returns the ranked lists a fresh build with these parameters
\* would return over the unchanged catalog, whatever the parameters of the
\* stored build (hits that met no build in progress).
C37_HitEqualsFreshBuild ==
    \A r \in Threads :
        (run[r].result.kind = "hit" /\ run[r].result.quiet /\ OneBuild(run[r].result.seen)) =>
            /\ run[r].result.unigrams = build_lists(run[r].params).unigrams
            /\ run[r].result.bigrams = build_lists(run[r].params).bigrams

====
